---- MODULE Spec2Model ----
(***************************************************************************)
(* State-machine model of the LegalSay front end: the session store        *)
(* (contract-store), the text cleaner (textUtils) and the negotiation page *)
(* with its streaming reconciler (processNegotiation).                     *)
(*                                                                         *)
(* Texts are sequences of one-character strings.  A chat message text is a *)
(* sequence of such tokens as well; a template literal is modelled by the  *)
(* tokens it interpolates.                                                 *)
(***************************************************************************)
EXTENDS Integers, Sequences, FiniteSets, TLC

\* ------------------------------------------------------------- bounds
MaxTurns == 1       \* negotiation turns the user starts in one behaviour (Spec)
PageRecords == 2    \* event records the backend writes in one stream (Spec)
WireRecords == 3    \* the same in SpecWire, where reads cut lines anywhere
MaxRecords == 4     \* the same in SpecReconciler, where reads deliver whole lines
TurnRecords == 6     \* the same in SpecTurn, one run sent from the copilot panel
MaxReanalyses == 1   \* calls of handleReanalyze in one behaviour (SpecReanalyze)
MaxStoreOps == 3     \* store actions called in one behaviour (SpecStore)
MaxJsonLen == 2      \* characters of an arbitrary string in an analysis field (SpecApi)
GateRecords == 1
MaxExplains == 3
MaxTextLen == 5
MaxPerRead == 2     \* records that begin inside one network read

\* ------------------------------------------------------------- textUtils
NL == "\n"
CR == "\r"
SP == " "
WhiteSpace == {SP, NL, CR}
Punct == {".", ",", ";", ":", "!", "?"}

\* rawText.replace(/\r\n/g, '\n').replace(/\r/g, '\n')
RECURSIVE NormalizeEol(_)
NormalizeEol(s) ==
    IF s = <<>> THEN <<>>
    ELSE IF Head(s) = CR
         THEN IF Len(s) >= 2 /\ s[2] = NL
              THEN <<NL>> \o NormalizeEol(SubSeq(s, 3, Len(s)))
              ELSE <<NL>> \o NormalizeEol(Tail(s))
         ELSE <<Head(s)>> \o NormalizeEol(Tail(s))

\* String.prototype.split(sep): "a\n" gives <<"a", "">>, "" gives <<"">>
RECURSIVE SplitAcc(_, _, _)
SplitAcc(s, sep, cur) ==
    IF s = <<>> THEN <<cur>>
    ELSE IF Head(s) = sep
         THEN <<cur>> \o SplitAcc(Tail(s), sep, <<>>)
         ELSE SplitAcc(Tail(s), sep, Append(cur, Head(s)))

Split(s, sep) == SplitAcc(s, sep, <<>>)

RECURSIVE TrimStart(_)
TrimStart(s) ==
    IF s # <<>> /\ Head(s) \in WhiteSpace THEN TrimStart(Tail(s)) ELSE s

RECURSIVE TrimEnd(_)
TrimEnd(s) ==
    IF s # <<>> /\ s[Len(s)] \in WhiteSpace
    THEN TrimEnd(SubSeq(s, 1, Len(s) - 1)) ELSE s

\* String.prototype.trim()
Trim(s) == TrimEnd(TrimStart(s))

\* the for loop of cleanPdfText over the lines; acc = [result, cur, empties]
RECURSIVE JoinParagraphs(_, _)
JoinParagraphs(lines, acc) ==
    IF lines = <<>> THEN acc
    ELSE LET line == Trim(Head(lines)) IN
         IF line = <<>>
         THEN IF acc.empties + 1 >= 2 /\ acc.cur # <<>>
              THEN JoinParagraphs(Tail(lines),
                       [result |-> acc.result \o acc.cur \o <<NL, NL>>,
                        cur |-> <<>>, empties |-> acc.empties + 1])
              ELSE JoinParagraphs(Tail(lines),
                       [acc EXCEPT !.empties = acc.empties + 1])
         ELSE JoinParagraphs(Tail(lines),
                  [result |-> acc.result,
                   cur |-> IF acc.cur # <<>> THEN acc.cur \o <<SP>> \o line ELSE line,
                   empties |-> 0])

\* result.replace(/ +/g, ' ')
RECURSIVE CollapseSpaces(_)
CollapseSpaces(s) ==
    IF s = <<>> THEN <<>>
    ELSE IF Head(s) = SP /\ Len(s) >= 2 /\ s[2] = SP
         THEN CollapseSpaces(Tail(s))
         ELSE <<Head(s)>> \o CollapseSpaces(Tail(s))

\* text.replace(/ ([.,;:!?])/g, '$1')
RECURSIVE FixPunctuation(_)
FixPunctuation(s) ==
    IF s = <<>> THEN <<>>
    ELSE IF Head(s) = SP /\ Len(s) >= 2 /\ s[2] \in Punct
         THEN <<s[2]>> \o FixPunctuation(SubSeq(s, 3, Len(s)))
         ELSE <<Head(s)>> \o FixPunctuation(Tail(s))

cleanPdfText(rawText) ==
    LET lines == Split(NormalizeEol(rawText), NL)
        acc == JoinParagraphs(lines, [result |-> <<>>, cur |-> <<>>, empties |-> 0])
        result == IF acc.cur # <<>> THEN acc.result \o acc.cur ELSE acc.result
    IN FixPunctuation(CollapseSpaces(result))

\* ------------------------------------------------------------- contract-store
\* An analysis text is kept as its first 50 characters (head) and the rest
\* (tail): the page only ever takes substring(0, 50) of it.
\* a flag whose id leaves the index out
FlagOfSeverity(sev, idx, f) ==
    [id |-> <<sev, 0>>, analysis |-> f.analysis,
     original_text |-> f.original_text, type |-> sev]

FlagOf(sev, idx, f) ==
    [id |-> <<sev, idx>>, analysis |-> f.analysis,
     original_text |-> f.original_text, type |-> sev]

convertAnalysisToFlags(analysis) ==
    [i \in 1..Len(analysis.red_flags) |-> FlagOf("red", i - 1, analysis.red_flags[i])]
    \o [i \in 1..Len(analysis.yellow_flags) |->
            FlagOf("yellow", i - 1, analysis.yellow_flags[i])]
    \o [i \in 1..Len(analysis.green_flags) |->
            FlagOf("green", i - 1, analysis.green_flags[i])]

\* a filter that keeps every flag
removeNoClause(fl, clauseId) == fl

removeNegotiatedClause(fl, clauseId) ==
    LET Keep(flag) == flag.id # clauseId IN SelectSeq(fl, Keep)

RECURSIVE removeAll(_, _)
removeAll(fl, ids) ==
    IF ids = <<>> THEN fl
    ELSE removeAll(removeNegotiatedClause(fl, Head(ids)), Tail(ids))

Range(s) == {s[i] : i \in 1..Len(s)}
Ids(s) == {s[i].id : i \in 1..Len(s)}

\* ------------------------------------------------------------- negotiation wire
\* One event record of /negotiate/chat/ on the wire is the line
\*   {  <members>}  \n
\* written here as three bytes: the opening brace, the members with the
\* closing brace (one token per event), and the newline.
Payloads == {"strategy", "text:A", "text:B", "edit_start", "edit:X", "edit:Y", "done"}
Garbage == "#"     \* a byte that belongs to no JSON value
Records == Payloads \cup {Garbage}

Encode(p) == IF p = Garbage THEN <<Garbage, NL>> ELSE <<"{", p, NL>>

EventOf(p) ==
    CASE p = "strategy"   -> [type |-> "strategy", content |-> <<>>]
      [] p = "text:A"     -> [type |-> "text_delta", content |-> <<"A">>]
      [] p = "text:B"     -> [type |-> "text_delta", content |-> <<"B">>]
      [] p = "edit_start" -> [type |-> "edit_start", content |-> <<>>]
      [] p = "edit:X"     -> [type |-> "edit_delta", content |-> <<"X">>]
      [] p = "edit:Y"     -> [type |-> "edit_delta", content |-> <<"Y">>]
      [] p = "done"       -> [type |-> "done", content |-> <<>>]

\* JSON.parse(line): an event when the line is one complete record (JSON
\* ignores surrounding white space), a SyntaxError otherwise.
ParseOk(line) ==
    LET t == Trim(line) IN Len(t) = 2 /\ t[1] = "{" /\ t[2] \in Payloads

JSONParse(line) == EventOf(Trim(line)[2])

\* chunk.split('\n').filter(l => l.trim())
SplitLines(chunk) ==
    LET NonBlank(l) == Trim(l) # <<>> IN SelectSeq(Split(chunk, NL), NonBlank)

\* the events of a sequence of lines, unparseable lines left out
RECURSIVE ParsedOf(_)
ParsedOf(lines) ==
    IF lines = <<>> THEN <<>>
    ELSE IF ParseOk(Head(lines))
         THEN <<JSONParse(Head(lines))>> \o ParsedOf(Tail(lines))
         ELSE ParsedOf(Tail(lines))

\* ------------------------------------------------------------- negotiation page
AgentMsg(text) == [role |-> "agent", text |-> text]
UserMsg(text) == [role |-> "user", text |-> text]

\* `📌 Selected: ${clause.title} `
Announcement(title) == <<"Selected:">> \o title

\* flags.filter(red or yellow).map(flag => ClauseItem)
FlagsToClauses(fl) ==
    LET Negotiable(f) == f.type = "red" \/ f.type = "yellow"
        nf == SelectSeq(fl, Negotiable)
    IN [i \in 1..Len(nf) |->
          [id |-> nf[i].id,
           title |-> <<nf[i].analysis.head, "...">>,
           text |-> nf[i].analysis,
           original_text |-> nf[i].original_text,
           riskLevel |-> IF nf[i].type = "red" THEN "high" ELSE "medium"]]

\* clauses.find(c => c.id === clauseId): <<>> when there is none
Find(cl, clauseId) ==
    LET Is(c) == c.id = clauseId IN SelectSeq(cl, Is)

\* The locals of one processNegotiation run and the page state its event
\* loop writes, as one record r:
\*   agentResponse, fullProposedEdit, isEditMode, hasShownMessage  (locals)
\*   messages, contractText, activeTab                             (page)
\*   pending   lines of the current chunk not yet dispatched
\*   paused    inside the 1500 ms wait of the first edit_start
\*   events    the events dispatched so far, in order               (history)
\*   editLog   active tab and edit buffer right after each edit_start (history)

\* a text_delta branch that pushes a message for every delta
OnTextDeltaPushes(r, content) ==
    LET ar == r.agentResponse \o content
    IN [r EXCEPT !.agentResponse = ar,
                 !.messages = Append(r.messages, AgentMsg(ar))]

\* text_delta branch
OnTextDelta(r, content) ==
    LET ar == r.agentResponse \o content
        n == Len(r.messages)
    IN [r EXCEPT !.agentResponse = ar,
                 !.messages = IF n > 0 /\ r.messages[n].role = "agent"
                              THEN [r.messages EXCEPT ![n] = AgentMsg(ar)]
                              ELSE Append(r.messages, AgentMsg(ar))]

\* edit_start branch after the optional wait: isEditMode = true; fullProposedEdit = ""
EnterEditMode(r) ==
    [r EXCEPT !.isEditMode = TRUE, !.fullProposedEdit = <<>>,
              !.editLog = Append(@, [tab |-> r.activeTab, buffer |-> <<>>,
                                     editMode |-> TRUE])]

\* an edit_delta branch that shows the last delta instead of the buffer
OnEditDeltaShowsDelta(r, content) ==
    [r EXCEPT !.fullProposedEdit = r.fullProposedEdit \o content,
              !.contractText = content]

\* edit_delta branch (taken only in edit mode)
OnEditDelta(r, content) ==
    LET buf == r.fullProposedEdit \o content
    IN [r EXCEPT !.fullProposedEdit = buf, !.contractText = buf]

\* a done branch that leaves edit mode on
OnDoneKeepsEditMode(r) == r

\* done branch
OnDone(r) == [r EXCEPT !.isEditMode = FALSE]

\* a parse error that ends the for loop
AfterParseErrorBreaks(rest) == <<>>

\* a line JSON.parse rejects: the inner catch logs it and the for loop goes
\* on with the lines after it
AfterParseError(rest) == rest

Logged(r, ev) == [r EXCEPT !.events = Append(@, ev)]

\* for (const line of lines) { try { ... } catch { } }, up to the end of the
\* chunk or to the wait inside the first edit_start
RECURSIVE Dispatch(_, _)
Dispatch(r, lines) ==
    IF lines = <<>> THEN [r EXCEPT !.pending = <<>>]
    ELSE IF ~ParseOk(Head(lines)) THEN Dispatch(r, AfterParseError(Tail(lines)))
    ELSE LET ev == JSONParse(Head(lines)) IN
         CASE ev.type = "strategy" -> Dispatch(Logged(r, ev), Tail(lines))
           [] ev.type = "text_delta" ->
                Dispatch(Logged(OnTextDelta(r, ev.content), ev), Tail(lines))
           [] ev.type = "edit_start" ->
                IF ~r.hasShownMessage
                THEN [r EXCEPT !.hasShownMessage = TRUE, !.paused = TRUE,
                               !.pending = Tail(lines)]
                ELSE Dispatch(Logged(EnterEditMode(r), ev), Tail(lines))
           [] ev.type = "edit_delta" ->
                IF r.isEditMode
                THEN Dispatch(Logged(OnEditDelta(r, ev.content), ev), Tail(lines))
                ELSE Dispatch(Logged(r, ev), Tail(lines))
           [] ev.type = "done" -> Dispatch(Logged(OnDone(r), ev), Tail(lines))

\* ------------------------------------------------------------- state
VARIABLES
    \* contract-store
    contractContent, flags,
    \* NegotiationPage state and refs
    contractText, clauses, selectedClauseIds, isProcessing, activeTab,
    chatInput, messages, announcedClauses,
    \* the processNegotiation run in flight and its caller
    pc,               \* "idle", "fetch", "reading", "editWait", "returned"
    caller,           \* "chat", "one", "all": handleChatSend, processClause, processAllClauses
    clauseId,         \* processClause's argument
    targets,          \* ids of the clauses handed to processNegotiation
    capturedSelection,\* selectedClauseIds as processAllClauses closed over it
    agentResponse, fullProposedEdit, isEditMode, hasShownMessage, pending,
    \* the backend's side of the stream
    wire,             \* bytes of the record in transit not yet delivered to a read
    written,          \* records written in this stream
    \* history of the run in flight
    wholeLines,       \* the stream received so far, cut at its newlines:
                      \*   [events: those of its complete lines, rest: the open line]
    lineLog,          \* every line the for loop was handed, in order
    events,           \* the events dispatched, in order
    editLog,          \* see Dispatch
    failed,           \* the run went through the outer catch
    turnStart,        \* document, agent-message count and agent texts when the run began
    turns,
    \* the rest of the session
    analysisResult,   \* contract-store: <<the analysis>>, or <<>> for null
    mounted,          \* NegotiationPage is on screen
    isReanalyzing,    \* NegotiationPage state
    api,              \* the call of lib/api in flight, or ApiIdle
    reanalyses,       \* calls of handleReanalyze so far
    storeOps,         \* the store actions called from outside the page, in order
    home,             \* Home page state and the call it has in flight
    report            \* ReportDashboard state and the explainRisk calls in flight

storeVars == <<contractContent, flags>>
pageVars == <<contractText, clauses, selectedClauseIds, isProcessing, activeTab,
              chatInput, messages, announcedClauses>>
runVars == <<pc, caller, clauseId, targets, capturedSelection, agentResponse,
             fullProposedEdit, isEditMode, hasShownMessage, pending>>
netVars == <<wire, written>>
histVars == <<wholeLines, lineLog, events, editLog, failed, turnStart, turns>>
otherPages == <<home, report>>
sessionVars == <<analysisResult, mounted, isReanalyzing, api, reanalyses, storeOps,
                 otherPages>>
vars == <<storeVars, pageVars, runVars, netVars, histVars, sessionVars>>

\* ------------------------------------------------------------- initial state
Flag(h, t, orig) == [analysis |-> [head |-> h, tail |-> t], original_text |-> orig]

\* analyses the store may hold when the page mounts
Analyses ==
    { [red_flags |-> <<Flag("h1", "t1", <<"a">>), Flag("h2", "t2", <<"b">>)>>,
       yellow_flags |-> <<Flag("h3", "t3", <<"N/A">>)>>,
       green_flags |-> <<Flag("h4", "t4", <<"c">>)>>],
      [red_flags |-> <<Flag("h1", "t1", <<"a">>), Flag("h1", "t2", <<"b">>)>>,
       yellow_flags |-> <<>>,
       green_flags |-> <<>>] }

\* the analysis the store holds in the behaviours checked here
MountedAnalyses ==
    { a \in Analyses : a.yellow_flags # <<>> }

\* contract texts the store may hold when the page mounts
Contracts == { <<"a", NL, "b", SP, ".">> }

AgentCount(msgs) == Cardinality({i \in 1..Len(msgs) : msgs[i].role = "agent"})

\* the texts of the agent messages of a transcript, in order
AgentTexts(msgs) ==
    LET IsAgent(m) == m.role = "agent"
        agentMsgs == SelectSeq(msgs, IsAgent)
    IN [i \in 1..Len(agentMsgs) |-> agentMsgs[i].text]

NoRun ==
    /\ pc = "idle" /\ caller = "chat" /\ clauseId = <<>> /\ targets = {}
    /\ capturedSelection = <<>> /\ agentResponse = <<>> /\ fullProposedEdit = <<>>
    /\ isEditMode = FALSE /\ hasShownMessage = FALSE /\ pending = <<>>

\* no call of lib/api is in flight
ApiIdle ==
    [pc |-> "idle", fn |-> "none", input |-> <<>>, requests |-> 0,
     response |-> <<>>, outcome |-> <<>>]

\* the Home page as useState leaves it
HomeIdle ==
    [activeTab |-> "upload", file |-> <<>>, text |-> <<>>, isLoading |-> FALSE,
     error |-> <<>>, jurisdiction |-> <<"United States (General)">>, stored |-> <<>>]

\* ReportDashboard as useState leaves it; -1 stands for null
RiskIndexes == {0, 1}
ReportIdle ==
    [explainingRiskId |-> -1, explanations |-> [idx \in RiskIndexes |-> <<>>],
     inFlight |-> <<>>]

\* the page after hydration and the first run of the loading effect
Init ==
    /\ contractContent \in Contracts
    /\ \E a \in MountedAnalyses :
          analysisResult = <<a>> /\ flags = convertAnalysisToFlags(a)
    /\ mounted = TRUE /\ isReanalyzing = FALSE /\ api = ApiIdle /\ reanalyses = 0
    /\ home = HomeIdle /\ report = ReportIdle
    /\ storeOps = <<>>
    /\ contractText = cleanPdfText(contractContent)
    /\ clauses = FlagsToClauses(flags)
    /\ selectedClauseIds = <<>>
    /\ isProcessing = FALSE
    /\ activeTab = "clauses"
    /\ chatInput = <<>>
    /\ messages = <<>>
    /\ announcedClauses = {}
    /\ NoRun
    /\ wire = <<>> /\ written = 0
    /\ wholeLines = [events |-> <<>>, rest |-> <<>>]
    /\ lineLog = <<>> /\ events = <<>> /\ editLog = <<>>
    /\ failed = FALSE
    /\ turnStart = [doc |-> contractText, agents |-> 0, replies |-> <<>>]
    /\ turns = 0

\* ------------------------------------------------------------- user actions
\* Event handlers run between the steps of a pending run, never inside one:
\* the continuation of `await processNegotiation` runs in the same task as
\* the run's finally block.
UserMayAct == mounted /\ pc # "returned"

\* toggleClauseSelection(id), from a button rendered for each clause
toggleClauseSelection(id) ==
    /\ UserMayAct
    /\ id \in Ids(clauses)
    /\ LET found == Find(clauses, id)
           isCurrentlySelected == id \in Range(selectedClauseIds)
           NotId(x) == x # id
       IN IF isCurrentlySelected
          THEN /\ announcedClauses' = announcedClauses \ {id}
               /\ messages' =
                    IF found # <<>>
                    THEN LET Keep(m) == m.text # Announcement(found[1].title)
                         IN SelectSeq(messages, Keep)
                    ELSE messages
               /\ selectedClauseIds' = SelectSeq(selectedClauseIds, NotId)
          ELSE /\ IF id \notin announcedClauses /\ found # <<>>
                  THEN /\ announcedClauses' = announcedClauses \cup {id}
                       /\ messages' = Append(messages,
                                         UserMsg(Announcement(found[1].title)))
                  ELSE UNCHANGED <<announcedClauses, messages>>
               /\ selectedClauseIds' = Append(selectedClauseIds, id)
    /\ UNCHANGED <<sessionVars, storeVars, contractText, clauses, isProcessing, activeTab,
                   chatInput, runVars, netVars, wholeLines, lineLog,
                   events, editLog, failed, turnStart, turns>>

\* the bottom tab bar: setActiveTab(t)
Tabs == {"clauses", "contract", "copilot"}

selectTab(t) ==
    /\ UserMayAct
    /\ t # activeTab
    /\ activeTab' = t
    /\ UNCHANGED <<sessionVars, storeVars, contractText, clauses, selectedClauseIds, isProcessing,
                   chatInput, messages, announcedClauses, runVars, netVars, histVars>>

\* the chat textarea (disabled while processing): setChatInput(e.target.value)
ChatInputs == {<<>>, <<"h", "i">>}

typeChatInput(v) ==
    /\ UserMayAct
    /\ ~isProcessing
    /\ v # chatInput
    /\ chatInput' = v
    /\ UNCHANGED <<sessionVars, storeVars, contractText, clauses, selectedClauseIds, isProcessing,
                   activeTab, messages, announcedClauses, runVars, netVars, histVars>>

\* ------------------------------------------------------------- starting a run
\* processNegotiation up to `await negotiateChat(payload)`
BeginRun(who, id, tgt, sel, msgs) ==
    /\ turns < MaxTurns
    /\ isProcessing' = TRUE
    /\ pc' = "fetch"
    /\ caller' = who
    /\ clauseId' = id
    /\ targets' = tgt
    /\ capturedSelection' = sel
    /\ agentResponse' = <<>> /\ fullProposedEdit' = <<>>
    /\ isEditMode' = FALSE /\ hasShownMessage' = FALSE /\ pending' = <<>>
    /\ wire' = <<>> /\ written' = 0
    /\ wholeLines' = [events |-> <<>>, rest |-> <<>>]
    /\ lineLog' = <<>> /\ events' = <<>> /\ editLog' = <<>>
    /\ failed' = FALSE
    /\ turnStart' = [doc |-> contractText, agents |-> AgentCount(msgs),
                     replies |-> AgentTexts(msgs)]
    /\ turns' = turns + 1

handleChatSend ==
    /\ UserMayAct
    /\ Trim(chatInput) # <<>> /\ ~isProcessing
    /\ messages' = Append(messages, UserMsg(Trim(chatInput)))
    /\ chatInput' = <<>>
    /\ BeginRun("chat", <<>>, {}, <<>>, messages')
    /\ UNCHANGED <<sessionVars, storeVars, contractText, clauses, selectedClauseIds, activeTab,
                   announcedClauses>>

\* a Negotiate button that is never disabled
processClauseAlways ==
    /\ UserMayAct
    /\ Len(selectedClauseIds) = 1
    /\ Find(clauses, selectedClauseIds[1]) # <<>>
    /\ BeginRun("one", selectedClauseIds[1], {selectedClauseIds[1]}, <<>>, messages)
    /\ UNCHANGED <<sessionVars, storeVars, contractText, clauses, selectedClauseIds, activeTab,
                   chatInput, messages, announcedClauses>>

\* the Negotiate button with exactly one clause selected
processClause ==
    /\ UserMayAct
    /\ ~isProcessing
    /\ Len(selectedClauseIds) = 1
    /\ Find(clauses, selectedClauseIds[1]) # <<>>
    /\ BeginRun("one", selectedClauseIds[1], {selectedClauseIds[1]}, <<>>, messages)
    /\ UNCHANGED <<sessionVars, storeVars, contractText, clauses, selectedClauseIds, activeTab,
                   chatInput, messages, announcedClauses>>

\* the Negotiate button with several clauses selected
processAllClauses ==
    /\ UserMayAct
    /\ ~isProcessing
    /\ Len(selectedClauseIds) > 1
    /\ LET Chosen(c) == c.id \in Range(selectedClauseIds)
           selectedClauses == SelectSeq(clauses, Chosen)
       IN /\ selectedClauses # <<>>
          /\ BeginRun("all", <<>>, Ids(selectedClauses), selectedClauseIds, messages)
    /\ UNCHANGED <<sessionVars, storeVars, contractText, clauses, selectedClauseIds, activeTab,
                   chatInput, messages, announcedClauses>>

\* ------------------------------------------------------------- the run
\* catch (error) { setMessages(prev => [...prev, error message]) }
\* finally { setIsProcessing(false) }
ErrorText(kind) == <<"Error:", kind>>

\* a state setter of NegotiationPage: once the page has unmounted its state
\* is gone and the call changes nothing
SetState(current, new) == IF mounted THEN new ELSE current

\* a catch without the finally
CatchOnly(kind) ==
    /\ messages' = SetState(messages, Append(messages, AgentMsg(ErrorText(kind))))
    /\ UNCHANGED isProcessing
    /\ failed' = TRUE
    /\ pc' = "returned"

CatchAndFinally(kind) ==
    /\ messages' = SetState(messages, Append(messages, AgentMsg(ErrorText(kind))))
    /\ isProcessing' = SetState(isProcessing, FALSE)
    /\ failed' = TRUE
    /\ pc' = "returned"

\* how `await negotiateChat(payload)` and the body check can end in an error:
\* a non-2xx status, a rejected fetch, a response without a body
FetchErrors == {"status", "network", "no body"}

fetchResolves ==
    /\ pc = "fetch"
    /\ pc' = "reading"
    /\ UNCHANGED <<sessionVars, storeVars, pageVars, caller, clauseId, targets, capturedSelection,
                   agentResponse, fullProposedEdit, isEditMode, hasShownMessage,
                   pending, netVars, histVars>>

fetchFails(kind) ==
    /\ pc = "fetch"
    /\ CatchAndFinally(kind)
    /\ UNCHANGED <<sessionVars, storeVars, contractText, clauses, selectedClauseIds, activeTab,
                   chatInput, announcedClauses, caller, clauseId, targets,
                   capturedSelection, agentResponse, fullProposedEdit, isEditMode,
                   hasShownMessage, pending, netVars, wholeLines, lineLog,
                   events, editLog, turnStart, turns>>

Run ==
    [agentResponse |-> agentResponse, fullProposedEdit |-> fullProposedEdit,
     isEditMode |-> isEditMode, hasShownMessage |-> hasShownMessage,
     messages |-> messages, contractText |-> contractText, activeTab |-> activeTab,
     pending |-> <<>>, paused |-> FALSE, events |-> events, editLog |-> editLog]

\* the run's locals and the page after the event loop has gone as far as r
Becomes(r) ==
    /\ agentResponse' = r.agentResponse
    /\ fullProposedEdit' = r.fullProposedEdit
    /\ isEditMode' = r.isEditMode
    /\ hasShownMessage' = r.hasShownMessage
    /\ messages' = SetState(messages, r.messages)
    /\ contractText' = SetState(contractText, r.contractText)
    /\ activeTab' = SetState(activeTab, r.activeTab)
    /\ pending' = r.pending
    /\ events' = r.events
    /\ editLog' = r.editLog
    /\ pc' = IF r.paused THEN "editWait" ELSE "reading"

\* the bytes of a sequence of records
RECURSIVE EncodeAll(_)
EncodeAll(recs) ==
    IF recs = <<>> THEN <<>> ELSE Encode(Head(recs)) \o EncodeAll(Tail(recs))

\* sequences over S of length lo..hi
SeqsOf(S, lo, hi) == UNION {[1..k -> S] : k \in lo..hi}

\* the stream so far, cut at its newlines, after chunk arrived
Reassemble(w, chunk) ==
    LET parts == Split(w.rest \o chunk, NL)
        NonBlank(l) == Trim(l) # <<>>
        whole == SelectSeq(SubSeq(parts, 1, Len(parts) - 1), NonBlank)
    IN [events |-> w.events \o ParsedOf(whole), rest |-> parts[Len(parts)]]

\* reader.read() resolves with a chunk: the rest of the record in transit,
\* the records recs the backend wrote after it, less the last `held` bytes,
\* which stay in transit.  The chunk is split into lines and dispatched.
readChunk(recs, held, limit) ==
    /\ pc = "reading"
    /\ written + Len(recs) <= limit
    /\ LET bytes == wire \o EncodeAll(recs)
           chunk == SubSeq(bytes, 1, Len(bytes) - held)
           lines == SplitLines(chunk)
       IN /\ chunk # <<>>
          /\ held < (IF recs = <<>> THEN Len(wire) ELSE Len(Encode(recs[Len(recs)])))
          /\ wire' = SubSeq(bytes, Len(chunk) + 1, Len(bytes))
          /\ written' = written + Len(recs)
          /\ wholeLines' = Reassemble(wholeLines, chunk)
          /\ lineLog' = lineLog \o lines
          /\ Becomes(Dispatch(Run, lines))
    /\ UNCHANGED <<sessionVars, storeVars, clauses, selectedClauseIds, isProcessing, chatInput,
                   announcedClauses, caller, clauseId, targets, capturedSelection,
                   failed, turnStart, turns>>

\* the 1500 ms wait of the first edit_start is over:
\* setActiveTab('contract'), then the rest of the branch and of the chunk
editWaitOver ==
    /\ pc = "editWait"
    /\ LET shown == [Run EXCEPT !.activeTab = "contract"]
           ev == [type |-> "edit_start", content |-> <<>>]
       IN Becomes(Dispatch(Logged(EnterEditMode(shown), ev), pending))
    /\ UNCHANGED <<sessionVars, storeVars, clauses, selectedClauseIds, isProcessing, chatInput,
                   announcedClauses, caller, clauseId, targets, capturedSelection,
                   netVars, wholeLines, lineLog, failed, turnStart, turns>>

\* reader.read() resolves with done: the loop ends, finally runs
readDone ==
    /\ pc = "reading"
    /\ wire = <<>>
    /\ isProcessing' = SetState(isProcessing, FALSE)
    /\ pc' = "returned"
    /\ UNCHANGED <<sessionVars, storeVars, contractText, clauses, selectedClauseIds, activeTab,
                   chatInput, messages, announcedClauses, caller, clauseId, targets,
                   capturedSelection, agentResponse, fullProposedEdit, isEditMode,
                   hasShownMessage, pending, netVars, histVars>>

\* reader.read() rejects: the connection broke
readFails ==
    /\ pc = "reading"
    /\ CatchAndFinally("read")
    /\ UNCHANGED <<sessionVars, storeVars, contractText, clauses, selectedClauseIds, activeTab,
                   chatInput, announcedClauses, caller, clauseId, targets,
                   capturedSelection, agentResponse, fullProposedEdit, isEditMode,
                   hasShownMessage, pending, netVars, wholeLines, lineLog,
                   events, editLog, turnStart, turns>>

\* ------------------------------------------------------------- after the run
\* The effect that loads contract and flags runs again whenever the store's
\* contractContent, flags or analysisResult change identity.
LoadEffect(content, fl) ==
    [contractText |-> cleanPdfText(content), clauses |-> FlagsToClauses(fl)]

\* handleChatSend returns
chatReturns ==
    /\ pc = "returned" /\ caller = "chat"
    /\ pc' = "idle"
    /\ UNCHANGED <<sessionVars, storeVars, pageVars, caller, clauseId, targets, capturedSelection,
                   agentResponse, fullProposedEdit, isEditMode, hasShownMessage,
                   pending, netVars, histVars>>

\* the ids processClause / processAllClauses remove from the store
Removed == IF caller = "one" THEN <<clauseId>> ELSE capturedSelection

\* processClause after `await processNegotiation(...)`
clauseReturns ==
    /\ pc = "returned" /\ caller = "one"
    /\ LET NotId(x) == x # clauseId
           fl == removeAll(flags, Removed)
           loaded == LoadEffect(contractContent, fl)
       IN /\ chatInput' = SetState(chatInput, <<>>)
          /\ selectedClauseIds' =
                SetState(selectedClauseIds, SelectSeq(selectedClauseIds, NotId))
          /\ flags' = fl
          /\ announcedClauses' = announcedClauses \ {clauseId}
          /\ clauses' = SetState(clauses, loaded.clauses)
          /\ contractText' = SetState(contractText, loaded.contractText)
    /\ pc' = "idle"
    /\ UNCHANGED <<sessionVars, contractContent, isProcessing, activeTab, messages, caller,
                   clauseId, targets, capturedSelection, agentResponse,
                   fullProposedEdit, isEditMode, hasShownMessage, pending, netVars,
                   histVars>>

\* processAllClauses after `await processNegotiation(...)`
allReturn ==
    /\ pc = "returned" /\ caller = "all"
    /\ LET fl == removeAll(flags, Removed)
           loaded == LoadEffect(contractContent, fl)
       IN /\ chatInput' = SetState(chatInput, <<>>)
          /\ flags' = fl
          /\ announcedClauses' = announcedClauses \ Range(capturedSelection)
          /\ selectedClauseIds' = SetState(selectedClauseIds, <<>>)
          /\ clauses' = SetState(clauses, loaded.clauses)
          /\ contractText' = SetState(contractText, loaded.contractText)
    /\ pc' = "idle"
    /\ UNCHANGED <<sessionVars, contractContent, isProcessing, activeTab, messages, caller,
                   clauseId, targets, capturedSelection, agentResponse,
                   fullProposedEdit, isEditMode, hasShownMessage, pending, netVars,
                   histVars>>

\* ------------------------------------------------------------- JSON
\* JSON values: null, the number 1, strings, objects (members in order),
\* arrays (elements in order).
\* A JSON text is a sequence of characters; the word null counts as one.
JNull == [t |-> "null", s |-> <<>>, m |-> <<>>]
JNum == [t |-> "num", s |-> <<>>, m |-> <<>>]
JStr(chars) == [t |-> "str", s |-> chars, m |-> <<>>]
JObj(members) == [t |-> "obj", s |-> <<>>, m |-> members]
JArr(elements) == [t |-> "arr", s |-> <<>>, m |-> elements]
Undefined == [t |-> "undefined", s |-> <<>>, m |-> <<>>]
Member(key, value) == [k |-> key, v |-> value]

Quote == "\""
Backslash == "\\"

\* the characters of a string as they stand between the quotes
RECURSIVE EscapeChars(_)
EscapeChars(chars) ==
    IF chars = <<>> THEN <<>>
    ELSE (IF Head(chars) \in {Quote, Backslash}
          THEN <<Backslash, Head(chars)>> ELSE <<Head(chars)>>)
         \o EscapeChars(Tail(chars))

\* JSON.stringify
RECURSIVE JSONStringify(_)
RECURSIVE StringifyMembers(_)
RECURSIVE StringifyElements(_)
StringifyMembers(members) ==
    IF members = <<>> THEN <<>>
    ELSE <<Quote>> \o EscapeChars(Head(members).k) \o <<Quote, ":">>
         \o JSONStringify(Head(members).v)
         \o (IF Tail(members) = <<>> THEN <<>> ELSE <<",">>)
         \o StringifyMembers(Tail(members))

StringifyElements(elements) ==
    IF elements = <<>> THEN <<>>
    ELSE JSONStringify(Head(elements))
         \o (IF Tail(elements) = <<>> THEN <<>> ELSE <<",">>)
         \o StringifyElements(Tail(elements))

JSONStringify(value) ==
    CASE value.t = "null" -> <<"null">>
      [] value.t = "num" -> <<"1">>
      [] value.t = "str" -> <<Quote>> \o EscapeChars(value.s) \o <<Quote>>
      [] value.t = "obj" -> <<"{">> \o StringifyMembers(value.m) \o <<"}">>
      [] value.t = "arr" -> <<"[">> \o StringifyElements(value.m) \o <<"]">>

\* JSON.parse; a parse step yields [ok, v, rest]
NoParse == [ok |-> FALSE, v |-> Undefined, rest |-> <<>>]
Parsed(value, rest) == [ok |-> TRUE, v |-> value, rest |-> rest]

\* the characters of a string up to its closing quote
RECURSIVE ParseChars(_, _)
ParseChars(text, acc) ==
    IF text = <<>> THEN NoParse
    ELSE IF Head(text) = Quote THEN Parsed(JStr(acc), Tail(text))
    ELSE IF Head(text) = Backslash
         THEN IF Len(text) >= 2 /\ text[2] \in {Quote, Backslash}
              THEN ParseChars(Tail(Tail(text)), Append(acc, text[2]))
              ELSE NoParse
    ELSE ParseChars(Tail(text), Append(acc, Head(text)))

RECURSIVE ParseValue(_)
RECURSIVE ParseMembers(_, _)
RECURSIVE ParseElements(_, _)
ParseMembers(text, acc) ==
    IF text = <<>> \/ Head(text) # Quote THEN NoParse
    ELSE LET key == ParseChars(Tail(text), <<>>) IN
         IF ~key.ok \/ key.rest = <<>> \/ Head(key.rest) # ":" THEN NoParse
         ELSE LET value == ParseValue(Tail(key.rest)) IN
              IF ~value.ok \/ value.rest = <<>> THEN NoParse
              ELSE LET members == Append(acc, Member(key.v.s, value.v)) IN
                   CASE Head(value.rest) = "}" -> Parsed(JObj(members), Tail(value.rest))
                     [] Head(value.rest) = "," -> ParseMembers(Tail(value.rest), members)
                     [] OTHER -> NoParse

ParseElements(text, acc) ==
    LET value == ParseValue(text) IN
    IF ~value.ok \/ value.rest = <<>> THEN NoParse
    ELSE LET elements == Append(acc, value.v) IN
         CASE Head(value.rest) = "]" -> Parsed(JArr(elements), Tail(value.rest))
           [] Head(value.rest) = "," -> ParseElements(Tail(value.rest), elements)
           [] OTHER -> NoParse

ParseValue(text) ==
    IF text = <<>> THEN NoParse
    ELSE CASE Head(text) = "null" -> Parsed(JNull, Tail(text))
           [] Head(text) = "1" -> Parsed(JNum, Tail(text))
           [] Head(text) = Quote -> ParseChars(Tail(text), <<>>)
           [] Head(text) = "{" ->
                IF Len(text) >= 2 /\ text[2] = "}"
                THEN Parsed(JObj(<<>>), Tail(Tail(text)))
                ELSE ParseMembers(Tail(text), <<>>)
           [] Head(text) = "[" ->
                IF Len(text) >= 2 /\ text[2] = "]"
                THEN Parsed(JArr(<<>>), Tail(Tail(text)))
                ELSE ParseElements(Tail(text), <<>>)
           [] OTHER -> NoParse

\* a parse that takes any text for a string
JSONParseTextAsString(text) == <<JStr(text)>>

\* <<value>>, or <<>> for a SyntaxError
JSONParseText(text) ==
    LET r == ParseValue(text)
    IN IF r.ok /\ r.rest = <<>> THEN <<r.v>> ELSE <<>>

\* ------------------------------------------------------------- lib/api: values
\* Messages are sequences of pieces of text; a status has its decimal text.
StatusText(status) ==
    CASE status = 200 -> "200" [] status = 404 -> "404" [] status = 408 -> "408"
      [] status = 500 -> "500" [] status = 502 -> "502" [] OTHER -> "?"

\* new ApiError(message, statusCode); any other Error
ApiError(message, statusCode) ==
    [cls |-> "ApiError", message |-> message, statusCode |-> statusCode]
RawError(name, message) == [cls |-> name, message |-> message, statusCode |-> -1]
NoError == [cls |-> "none", message |-> <<>>, statusCode |-> -1]

\* how a call ends: it returns a value or throws an error
Returned(value) == [kind |-> "value", value |-> value, error |-> NoError]
Thrown(error) == [kind |-> "error", value |-> Undefined, error |-> error]

\* error.message.includes(needle), over the messages that occur here
Includes(message, needle) ==
    \E i \in 1..Len(message) :
        CASE needle = "Failed to fetch" -> message[i] = "Failed to fetch"
          [] needle = "NetworkError" ->
               message[i] = "NetworkError when attempting to fetch resource."
          [] needle = "timed out" ->
               message[i] \in
                 {"Request timed out. The analysis is taking longer than expected. Please try again.",
                  "Request timed out. Please try again."}
          [] OTHER -> FALSE

\* value || ..., typeof, String(value), value.key of JavaScript
Truthy(value) ==
    value.t \in {"obj", "arr", "num"} \/ (value.t = "str" /\ value.s # <<>>)
TextOf(value) ==
    CASE value.t = "str" -> value.s
      [] value.t = "num" -> <<"1">>
      [] value.t = "obj" -> <<"[object Object]">>
      [] OTHER -> <<value.t>>
Get(value, key) ==
    LET at == {i \in 1..Len(value.m) : value.m[i].k = key}
    IN IF value.t = "obj" /\ at # {}
       THEN value.m[CHOOSE i \in at : \A j \in at : j <= i].v
       ELSE Undefined

\* A response body: the JSON value it encodes (<<>> if it is not JSON), its
\* text, and whether it has been read.
Body(json, text) == [json |-> json, text |-> text, used |-> FALSE]
Consumed(body) == [body EXCEPT !.used = TRUE]
BodyUsedError == RawError("TypeError", <<"body stream already read">>)

\* response.json(), response.text()
ResponseJson(body) ==
    IF body.used THEN Thrown(BodyUsedError)
    ELSE IF body.json = <<>>
         THEN Thrown(RawError("SyntaxError", <<"Unexpected token">>))
         ELSE Returned(body.json[1])
ResponseText(body) ==
    IF body.used THEN Thrown(BodyUsedError) ELSE Returned(JStr(body.text))

Ok(status) == status \in 200..299

\* what the network does to a request: the timer of fetchWithTimeout aborts
\* it, fetch rejects, or a response arrives
AbortEvent == [kind |-> "abort", message |-> <<>>, status |-> 0, body |-> Body(<<>>, <<>>)]
RejectEvent(message) ==
    [kind |-> "reject", message |-> message, status |-> 0, body |-> Body(<<>>, <<>>)]
ResponseEvent(status, body) ==
    [kind |-> "response", message |-> <<>>, status |-> status, body |-> body]

TimedOutMessage ==
    <<"Request timed out. The analysis is taking longer than expected. Please try again.">>

\* a fetchWithTimeout that lets the AbortError through
fetchWithTimeoutRaw(ev) ==
    CASE ev.kind = "abort" -> Thrown(RawError("AbortError", <<"The user aborted a request.">>))
      [] ev.kind = "reject" -> Thrown(RawError("TypeError", ev.message))
      [] ev.kind = "response" -> Returned(Undefined)

\* fetchWithTimeout: resolves with the response (Returned) or throws
fetchWithTimeout(ev) ==
    CASE ev.kind = "abort" -> Thrown(ApiError(TimedOutMessage, 408))
      [] ev.kind = "reject" -> Thrown(RawError("TypeError", ev.message))
      [] ev.kind = "response" -> Returned(Undefined)

\* ------------------------------------------------------------- lib/api: calls
\* a limit of ten million bytes
MaxFileBytesDecimal == 10 * 1000 * 1000

MaxFileBytes == 10 * 1024 * 1024

\* An argument: a string ("text"), a File ("file") or null ("null").
TextInput(text) == [kind |-> "text", text |-> text, size |-> 0, name |-> <<>>]
FileInput(size, name) == [kind |-> "file", text |-> <<>>, size |-> size, name |-> name]
NullInput == [kind |-> "null", text |-> <<>>, size |-> 0, name |-> <<>>]

\* name.endsWith(suffix), a name being a sequence of pieces
EndsWith(name, suffix) == name # <<>> /\ name[Len(name)] = suffix

\* the checks before the request: the message of the ApiError(…, 400) thrown,
\* or <<>> when the call goes on to the network
Validate(fn, input) ==
    CASE fn = "analyzeContract" ->
           IF input.kind = "text"
           THEN IF Trim(input.text) = <<>> THEN <<"Contract text cannot be empty">>
                ELSE <<>>
           ELSE IF input.size = 0 THEN <<"Uploaded file is empty">>
                ELSE IF input.size > MaxFileBytes THEN <<"File size exceeds 10MB limit">>
                ELSE <<>>
      [] fn = "explainRisk" ->
           IF Trim(input.text) = <<>> THEN <<"Risk text cannot be empty">> ELSE <<>>
      [] fn = "redlineClause" ->
           IF input.kind = "null" \/ input.size = 0
           THEN <<"Valid file is required for redlining">>
           ELSE IF ~EndsWith(input.name, ".docx")
                THEN <<"Only DOCX files are supported for redlining">>
                ELSE <<>>
      [] fn = "extractText" ->
           IF input.kind = "null" \/ input.size = 0
           THEN <<"Valid file is required for text extraction">>
           ELSE <<>>
      [] fn = "negotiateChat" ->
           IF Trim(input.text) = <<>> THEN <<"Message cannot be empty">> ELSE <<>>

\* catch (error) { if (error instanceof ApiError) throw error; throw new ApiError(message, 500) }
Rethrow(outcome, message) ==
    IF outcome.kind = "value" \/ outcome.error.cls = "ApiError" THEN outcome
    ELSE Thrown(ApiError(message, 500))

\* analyzeContract, the non-ok branch
AnalyzeNonOk(status, body) ==
    LET generic == <<"Analysis failed", StatusText(status)>>
        errorData == ResponseJson(body)
    IN IF errorData.kind = "value" /\ errorData.value.t # "null"
       THEN LET detail == Get(errorData.value, <<"detail">>)
                message == Get(errorData.value, <<"message">>)
            IN Thrown(ApiError(IF Truthy(detail) THEN TextOf(detail)
                               ELSE IF Truthy(message) THEN TextOf(message)
                               ELSE generic, status))
       ELSE \* json() or the property access threw: the inner catch reads text()
            LET errorText == ResponseText(Consumed(body))
            IN IF errorText.kind = "error" THEN Thrown(errorText.error)
               ELSE Thrown(ApiError(IF Truthy(errorText.value) THEN errorText.value.s
                                    ELSE generic, status))

\* analyzeContract, decoding an ok response
AnalyzeOk(body) ==
    LET data == ResponseJson(body)
    IN IF data.kind = "error" THEN data
       ELSE IF data.value.t = "null"
            THEN Thrown(RawError("TypeError", <<"Cannot read properties of null">>))
       ELSE LET field == Get(data.value, <<"analysis">>)
                inner == JSONParseText(field.s)
            IN IF field.t = "str" /\ inner = <<>>
               THEN Thrown(ApiError(<<"Invalid response format from server">>, 500))
               ELSE LET analysis == IF field.t = "str" THEN inner[1] ELSE field
                    IN IF analysis.t \notin {"obj", "arr"}
                       THEN Thrown(ApiError(<<"Invalid analysis result structure">>, 500))
                       ELSE Returned(analysis)

\* analyzeContract from fetchWithTimeout on
analyzeContract(ev) ==
    LET response == fetchWithTimeout(ev)
        tried == IF response.kind = "error" THEN response
                 ELSE IF ~Ok(ev.status) THEN AnalyzeNonOk(ev.status, ev.body)
                 ELSE AnalyzeOk(ev.body)
    IN IF tried.kind = "value" \/ tried.error.cls = "ApiError" THEN tried
       ELSE IF Includes(tried.error.message, "Failed to fetch")
            THEN Thrown(ApiError(<<"Cannot connect to server. Please check:">>, 0))
            ELSE Thrown(ApiError(<<"An unexpected error occurred during analysis">>, 500))

explainRisk(ev) ==
    LET response == fetchWithTimeout(ev)
        data == ResponseJson(ev.body)
        tried ==
          IF response.kind = "error" THEN response
          ELSE IF ~Ok(ev.status)
               THEN Thrown(ApiError(<<"Failed to generate risk explanation">>, ev.status))
          ELSE IF data.kind = "error" THEN data
          ELSE IF data.value.t = "null"
               THEN Thrown(RawError("TypeError", <<"Cannot read properties of null">>))
          ELSE IF Truthy(Get(data.value, <<"explanation">>))
               THEN Returned(Get(data.value, <<"explanation">>))
               ELSE Returned(JStr(<<"No explanation available">>))
    IN Rethrow(tried, <<"Failed to explain risk. Please try again.">>)

redlineClause(ev) ==
    LET response == fetchWithTimeout(ev)
        errorText == ResponseText(ev.body)
        tried ==
          IF response.kind = "error" THEN response
          ELSE IF ~Ok(ev.status)
               THEN Thrown(ApiError(IF errorText.kind = "value" /\ Truthy(errorText.value)
                                    THEN errorText.value.s
                                    ELSE <<"Redlining failed">>, ev.status))
          ELSE ResponseText(ev.body)   \* response.blob()
    IN Rethrow(tried, <<"Failed to redline document. Please try again.">>)

extractText(ev) ==
    LET response == fetchWithTimeout(ev)
        errorText == ResponseText(ev.body)
        data == ResponseJson(ev.body)
        tried ==
          IF response.kind = "error" THEN response
          ELSE IF ~Ok(ev.status)
               THEN Thrown(ApiError(IF Truthy(errorText.value) THEN errorText.value.s
                                    ELSE <<"Failed to extract text">>, ev.status))
          ELSE IF data.kind = "error" THEN data
          ELSE IF data.value.t = "null"
               THEN Thrown(RawError("TypeError", <<"Cannot read properties of null">>))
          ELSE LET text == Get(data.value, <<"text">>)
               IN IF ~Truthy(text)
                  THEN Thrown(ApiError(<<"No text could be extracted from the file">>, 500))
                  ELSE IF text.t # "str"
                       THEN Thrown(RawError("TypeError", <<"data.text.trim is not a function">>))
                  ELSE IF Trim(text.s) = <<>>
                       THEN Thrown(ApiError(<<"No text could be extracted from the file">>, 500))
                       ELSE Returned(text)
    IN Rethrow(tried, <<"Failed to extract text. Please try again.">>)

\* negotiateChat calls fetch itself: no timer (page.tsx reads the body)
negotiateChat(ev) ==
    IF ev.kind = "response"
    THEN IF ~Ok(ev.status) THEN Thrown(ApiError(<<"Negotiation failed">>, ev.status))
         ELSE Returned(Undefined)
    ELSE IF Includes(ev.message, "Failed to fetch")
         THEN Thrown(ApiError(<<"Cannot connect to server">>, 0))
         ELSE Thrown(ApiError(<<"Failed to process negotiation. Please try again.">>, 500))

ApiFunctions ==
    {"analyzeContract", "explainRisk", "redlineClause", "extractText", "negotiateChat"}

Settle(fn, ev) ==
    CASE fn = "analyzeContract" -> analyzeContract(ev)
      [] fn = "explainRisk" -> explainRisk(ev)
      [] fn = "redlineClause" -> redlineClause(ev)
      [] fn = "extractText" -> extractText(ev)
      [] fn = "negotiateChat" -> negotiateChat(ev)

\* getUserFriendlyMessage
getUserFriendlyMessage(error) ==
    IF error.cls = "ApiError"
    THEN CASE error.statusCode = 404 ->
                <<"The requested resource was not found. Please try again.">>
           [] error.statusCode = 500 ->
                <<"Server error occurred. Our team has been notified. Please try again later.">>
           [] error.statusCode = 503 ->
                <<"Service temporarily unavailable. Please try again in a few moments.">>
           [] OTHER -> error.message
    ELSE IF Includes(error.message, "Failed to fetch") \/ Includes(error.message, "NetworkError")
         THEN <<"Network connection error. Please check your internet connection and try again.">>
    ELSE IF Includes(error.message, "timed out")
         THEN <<"Request timed out. Please try again.">>
    ELSE IF error.message # <<>> THEN error.message
    ELSE <<"An unexpected error occurred.">>

\* ------------------------------------------------------------- lib/api: a call
Texts == { <<>>, <<SP>>, <<"a">> }
FileSizes == {0, 1, 10485759, 10485760, 10485761}
FileNames == { <<"c", ".docx">>, <<"c", ".pdf">>, <<".docx", ".bak">> }

ApiInputs(fn) ==
    LET texts == {TextInput(text) : text \in Texts}
        files == {FileInput(size, name) : size \in FileSizes, name \in FileNames}
    IN CASE fn = "analyzeContract" -> texts \cup files
         [] fn \in {"explainRisk", "negotiateChat"} -> texts
         [] fn \in {"redlineClause", "extractText"} -> files \cup {NullInput}

\* analysis objects a backend may send
JObjects ==
    { JObj(<<>>),
      JObj(<<Member(<<"r">>, JNum)>>),
      JObj(<<Member(<<"r">>, JStr(<<"x", Quote, Backslash>>)), Member(<<"y">>, JNull)>>),
      JObj(<<Member(<<"r">>, JObj(<<Member(<<"x">>, JStr(<<>>))>>))>>),
      JObj(<<Member(<<"red_flags">>, JArr(<<JObj(<<Member(<<"analysis">>, JStr(<<"x">>))>>)>>)),
             Member(<<"yellow_flags">>, JArr(<<>>)),
             Member(<<"green_flags">>, JArr(<<JNull, JNum>>))>>),
      JArr(<<>>) }

\* what the analysis field of an ok response may hold: an object, the JSON
\* text of one, any short string, null, a number
JsonChars == {"{", "}", Quote, ":", "r", "1", "null"}
AnalysisFields ==
    JObjects
    \cup {JStr(JSONStringify(object)) : object \in JObjects}
    \cup {JStr(text) : text \in SeqsOf(JsonChars, 0, MaxJsonLen)}
    \cup {JNull, JNum}

JsonBody(value) == Body(<<value>>, JSONStringify(value))
AnalysisBodies ==
    {JsonBody(JObj(<<Member(<<"analysis">>, field)>>)) : field \in AnalysisFields}
CommonBodies ==
    { JsonBody(JObj(<<Member(<<"detail">>, JStr(<<"D">>))>>)),
      JsonBody(JObj(<<Member(<<"message">>, JStr(<<"M">>))>>)),
      JsonBody(JObj(<<>>)),
      JsonBody(JNull),
      Body(<<>>, <<"oops">>),
      Body(<<>>, <<>>),
      JsonBody(JObj(<<Member(<<"explanation">>, JStr(<<"E">>))>>)),
      JsonBody(JObj(<<Member(<<"text">>, JStr(<<"t">>))>>)),
      JsonBody(JObj(<<Member(<<"text">>, JStr(<<SP>>))>>)),
      JsonBody(JObj(<<Member(<<"text">>, JNum)>>)) }

Statuses == {200, 404, 408, 500, 502}
RejectMessages ==
    { <<"Failed to fetch">>, <<"NetworkError when attempting to fetch resource.">>,
      <<"Load failed">> }

NetEvents(fn) ==
    {RejectEvent(message) : message \in RejectMessages}
    \cup (IF fn = "negotiateChat" THEN {} ELSE {AbortEvent})
    \cup {ResponseEvent(status, body) : status \in Statuses, body \in CommonBodies}
    \cup (IF fn = "analyzeContract"
          THEN {ResponseEvent(status, body) : status \in Statuses, body \in AnalysisBodies}
          ELSE {})

\* a function of lib/api is called: its checks, then the request
apiCall(fn, input) ==
    /\ api.pc = "idle" /\ ~isReanalyzing
    /\ api' = IF Validate(fn, input) # <<>>
              THEN [pc |-> "settled", fn |-> fn, input |-> input, requests |-> 0,
                    response |-> <<>>,
                    outcome |-> <<Thrown(ApiError(Validate(fn, input), 400))>>]
              ELSE [pc |-> "fetching", fn |-> fn, input |-> input, requests |-> 1,
                    response |-> <<>>, outcome |-> <<>>]
    /\ UNCHANGED <<storeVars, pageVars, runVars, netVars, histVars, analysisResult,
                   mounted, isReanalyzing, reanalyses, storeOps, otherPages>>

\* the request ends and the call with it
apiSettles(ev) ==
    /\ api.pc = "fetching" /\ ~isReanalyzing
    /\ api' = [api EXCEPT !.pc = "settled", !.response = <<ev>>,
                          !.outcome = <<Settle(api.fn, ev)>>]
    /\ UNCHANGED <<storeVars, pageVars, runVars, netVars, histVars, analysisResult,
                   mounted, isReanalyzing, reanalyses, storeOps, otherPages>>

\* the caller has taken the outcome
apiDone ==
    /\ api.pc = "settled"
    /\ api' = ApiIdle
    /\ UNCHANGED <<storeVars, pageVars, runVars, netVars, histVars, analysisResult,
                   mounted, isReanalyzing, reanalyses, storeOps, otherPages>>

\* ------------------------------------------------------------- re-analysis
\* contract-store actions, as functions of the store's fields
setContract(content) == [contractContent |-> content]
\* a setAnalysis that adds the new flags to those the store holds
setAnalysisMerges(analysis) ==
    [analysisResult |-> <<analysis>>,
     flags |-> flags \o convertAnalysisToFlags(analysis)]

setAnalysis(analysis) ==
    [analysisResult |-> <<analysis>>, flags |-> convertAnalysisToFlags(analysis)]

updateContractContent(content) == [contractContent |-> content]
reset == [contractContent |-> <<>>, analysisResult |-> <<>>, flags |-> <<>>]

\* handleReanalyze up to `await analyzeContract(fileToAnalyze)`; the file is
\* made of the document as this render shows it
handleReanalyze ==
    /\ UserMayAct
    /\ contractText # <<>> /\ ~isReanalyzing
    /\ Trim(contractText) # <<>>
    /\ reanalyses < MaxReanalyses
    /\ reanalyses' = reanalyses + 1
    /\ isReanalyzing' = TRUE
    /\ api' = [ApiIdle EXCEPT !.pc = "fetching", !.fn = "analyzeContract",
                              !.input = [kind |-> "file", name |-> "contract.txt",
                                         text |-> contractText],
                              !.requests = 1]
    /\ UNCHANGED <<storeVars, pageVars, runVars, netVars, histVars,
                   analysisResult, mounted, storeOps, otherPages>>

\* analyzeContract resolves with result: setContract, setAnalysis, finally;
\* the store changed, so the loading effect runs again
reanalyzeSucceeds(result) ==
    /\ isReanalyzing /\ api.pc = "fetching" /\ pc # "returned"
    /\ LET content == setContract(api.input.text).contractContent
           analysed == setAnalysis(result)
           loaded == LoadEffect(content, analysed.flags)
       IN /\ contractContent' = content
          /\ analysisResult' = analysed.analysisResult
          /\ flags' = analysed.flags
          /\ contractText' = SetState(contractText, loaded.contractText)
          /\ clauses' = SetState(clauses, loaded.clauses)
    /\ isReanalyzing' = SetState(isReanalyzing, FALSE)
    /\ api' = ApiIdle
    /\ UNCHANGED <<selectedClauseIds, isProcessing, activeTab, chatInput, messages,
                   announcedClauses, runVars, netVars, histVars, mounted, reanalyses, storeOps, otherPages>>

\* analyzeContract rejects: catch (toast), finally
reanalyzeFails ==
    /\ isReanalyzing /\ api.pc = "fetching" /\ pc # "returned"
    /\ isReanalyzing' = SetState(isReanalyzing, FALSE)
    /\ api' = ApiIdle
    /\ UNCHANGED <<storeVars, pageVars, runVars, netVars, histVars,
                   analysisResult, mounted, reanalyses, storeOps, otherPages>>

\* ------------------------------------------------------------- Home page
HomeTabs == {"upload", "text"}
HomeFiles == { FileInput(1, <<"c", ".pdf">>), FileInput(0, <<"c", ".pdf">>) }
Jurisdictions == { <<"United States (General)">>, <<"California">> }

homeSetActiveTab(t) ==
    /\ t # home.activeTab
    /\ home' = [home EXCEPT !.activeTab = t]
    /\ UNCHANGED <<storeVars, pageVars, runVars, netVars, histVars, analysisResult,
                   mounted, isReanalyzing, api, reanalyses, storeOps, report>>

\* handleFileChange: setFile, setError(null)
handleFileChange(file) ==
    /\ home' = [home EXCEPT !.file = <<file>>, !.error = <<>>]
    /\ UNCHANGED <<storeVars, pageVars, runVars, netVars, histVars, analysisResult,
                   mounted, isReanalyzing, api, reanalyses, storeOps, report>>

homeSetText(v) ==
    /\ v # home.text
    /\ home' = [home EXCEPT !.text = v]
    /\ UNCHANGED <<storeVars, pageVars, runVars, netVars, histVars, analysisResult,
                   mounted, isReanalyzing, api, reanalyses, storeOps, report>>

setJurisdiction(j) ==
    /\ j # home.jurisdiction
    /\ home' = [home EXCEPT !.jurisdiction = j]
    /\ UNCHANGED <<storeVars, pageVars, runVars, netVars, histVars, analysisResult,
                   mounted, isReanalyzing, api, reanalyses, storeOps, report>>

\* the fields analyzeContract appends to the FormData it posts
FormDataOf(input) ==
    IF input.kind = "text"
    THEN {[name |-> "text", value |-> input.text]}
    ELSE {[name |-> "file", value |-> input.name]}

\* handleAnalyze up to `await analyzeContract(fileToUpload, jurisdiction)`;
\* the Analyze button is disabled while isLoading
handleAnalyze ==
    /\ ~home.isLoading /\ api.pc = "idle" /\ ~isReanalyzing
    /\ LET missing ==
              IF home.activeTab = "text"
              THEN IF Trim(home.text) = <<>>
                   THEN <<"Please enter some text to analyze.">> ELSE <<>>
              ELSE IF home.file = <<>>
                   THEN <<"Please select a file to upload.">> ELSE <<>>
           fileToUpload ==
              IF home.activeTab = "text"
              THEN [kind |-> "file", text |-> home.text, size |-> Len(home.text),
                    name |-> <<"contract_text", ".txt">>]
              ELSE home.file[1]
           \* the arguments of the call: the file and the jurisdiction
           input == [kind |-> fileToUpload.kind, text |-> fileToUpload.text,
                     size |-> fileToUpload.size, name |-> fileToUpload.name,
                     jurisdiction |-> home.jurisdiction]
       IN IF missing # <<>>
          THEN /\ home' = [home EXCEPT !.isLoading = FALSE,
                              !.error = <<getUserFriendlyMessage(RawError("Error", missing))>>]
               /\ UNCHANGED api
          ELSE /\ home' = [home EXCEPT !.isLoading = TRUE, !.error = <<>>]
               /\ api' = IF Validate("analyzeContract", input) # <<>>
                         THEN [pc |-> "settled", fn |-> "analyzeContract", input |-> input,
                               requests |-> 0, response |-> <<>>,
                               outcome |-> <<Thrown(ApiError(
                                               Validate("analyzeContract", input), 400))>>]
                         ELSE [pc |-> "fetching", fn |-> "analyzeContract", input |-> input,
                               requests |-> 1, response |-> <<>>, outcome |-> <<>>]
    /\ UNCHANGED <<storeVars, pageVars, runVars, netVars, histVars, analysisResult,
                   mounted, isReanalyzing, reanalyses, storeOps, report>>

\* handleAnalyze after the await: the result goes to localStorage (setItem
\* throws when the storage is full), or the catch sets the error; finally
analyzeReturns(storageFull) ==
    /\ home.isLoading /\ api.pc = "settled"
    /\ LET outcome == api.outcome[1]
           quota == RawError("QuotaExceededError", <<"The quota has been exceeded.">>)
       IN /\ storageFull => outcome.kind = "value"
          /\ home' =
               IF outcome.kind = "value" /\ ~storageFull
               THEN [home EXCEPT !.stored = <<outcome.value>>, !.isLoading = FALSE]
               ELSE [home EXCEPT !.isLoading = FALSE,
                       !.error = <<getUserFriendlyMessage(
                                     IF storageFull THEN quota ELSE outcome.error)>>]
    /\ api' = ApiIdle
    /\ UNCHANGED <<storeVars, pageVars, runVars, netVars, histVars, analysisResult,
                   mounted, isReanalyzing, reanalyses, storeOps, report>>

\* what the backend may do to the Home page's request
HomeEvents ==
    { AbortEvent, RejectEvent(<<"Failed to fetch">>),
      ResponseEvent(500, JsonBody(JObj(<<Member(<<"detail">>, JStr(<<"D">>))>>))),
      ResponseEvent(200, JsonBody(JObj(<<Member(<<"analysis">>, JObj(<<>>))>>))) }

\* ------------------------------------------------------------- highlightedText
\* createFlexiblePattern: the characters of the anchor, every run of white
\* space replaced by the token \s+; the flag i is modelled by Lower
FlexSpace == "\\s+"
Lower(c) == CASE c = "A" -> "a" [] c = "B" -> "b" [] OTHER -> c

RECURSIVE createFlexiblePattern(_)
createFlexiblePattern(text) ==
    IF text = <<>> THEN <<>>
    ELSE IF Head(text) \in WhiteSpace
         THEN LET rest == createFlexiblePattern(Tail(text))
              IN IF rest # <<>> /\ Head(rest) = FlexSpace THEN rest
                 ELSE <<FlexSpace>> \o rest
         ELSE <<Head(text)>> \o createFlexiblePattern(Tail(text))

\* the position after a match of pattern[j..] that starts at text[i], or 0
RECURSIVE MatchEnd(_, _, _, _)
MatchEnd(text, i, pattern, j) ==
    IF j > Len(pattern) THEN i
    ELSE IF i > Len(text) THEN 0
    ELSE IF pattern[j] = FlexSpace
         THEN IF text[i] \notin WhiteSpace THEN 0
              ELSE IF i < Len(text) /\ text[i + 1] \in WhiteSpace
                   THEN MatchEnd(text, i + 1, pattern, j)
                   ELSE MatchEnd(text, i + 1, pattern, j + 1)
         ELSE IF Lower(text[i]) = Lower(pattern[j])
              THEN MatchEnd(text, i + 1, pattern, j + 1)
              ELSE 0

\* contractText.match(pattern): <<[start, end]>> of the first match, 0-based
\* and end-exclusive as in the code, or <<>>
StringMatch(text, pattern) ==
    LET starts == {i \in 1..Len(text) : MatchEnd(text, i, pattern, 1) # 0}
    IN IF starts = {} THEN <<>>
       ELSE LET i == CHOOSE m \in starts : \A n \in starts : m <= n
            IN <<[start |-> i - 1, end |-> MatchEnd(text, i, pattern, 1) - 1]>>

\* segments.sort((a, b) => a.start - b.start), a stable sort
RECURSIVE SortByStart(_)
SortByStart(segments) ==
    IF segments = <<>> THEN <<>>
    ELSE LET first == CHOOSE k \in 1..Len(segments) :
                        \A n \in 1..Len(segments) :
                            \/ segments[k].start < segments[n].start
                            \/ segments[k].start = segments[n].start /\ k <= n
             others == [n \in 1..(Len(segments) - 1) |->
                          IF n < first THEN segments[n] ELSE segments[n + 1]]
         IN <<segments[first]>> \o SortByStart(others)

\* text.substring(from, to), 0-based, end-exclusive, arguments swapped when
\* from > to
Substring(text, from, to) ==
    LET lo == IF from <= to THEN from ELSE to
        hi == IF from <= to THEN to ELSE from
    IN SubSeq(text, lo + 1, hi)

\* the forEach over the sorted segments: the spans pushed and lastEnd
RECURSIVE PushSpans(_, _, _, _)
PushSpans(text, segments, lastEnd, result) ==
    IF segments = <<>>
    THEN IF lastEnd < Len(text)
         THEN Append(result, [text |-> Substring(text, lastEnd, Len(text)), clauseIdx |-> -1])
         ELSE result
    ELSE LET segment == Head(segments)
             before == IF segment.start > lastEnd
                       THEN Append(result, [text |-> Substring(text, lastEnd, segment.start),
                                            clauseIdx |-> -1])
                       ELSE result
             span == [text |-> Substring(text, segment.start, segment.end),
                      clauseIdx |-> segment.clauseIdx]
         IN PushSpans(text, Tail(segments), segment.end, Append(before, span))

\* highlightedText(): the spans rendered, plain ones with clauseIdx -1
highlightedText(text, cl) ==
    IF Len(cl) = 0 THEN <<[text |-> text, clauseIdx |-> -1]>>
    ELSE LET Anchored(k) ==
                 /\ cl[k].original_text # <<>> /\ cl[k].original_text # <<"N/A">>
                 /\ StringMatch(text, createFlexiblePattern(cl[k].original_text)) # <<>>
             SegmentOf(k) ==
                 LET match == StringMatch(text, createFlexiblePattern(cl[k].original_text))[1]
                 IN [start |-> match.start, end |-> match.end, clauseIdx |-> k - 1]
             RECURSIVE Segments(_)
             Segments(k) ==
                 IF k > Len(cl) THEN <<>>
                 ELSE (IF Anchored(k) THEN <<SegmentOf(k)>> ELSE <<>>) \o Segments(k + 1)
         IN PushSpans(text, SortByStart(Segments(1)), 0, <<>>)

\* ------------------------------------------------------------- ReportDashboard
\* the text of the flag rendered at an index, and what the backend explains
RiskText(idx) == IF idx = 0 THEN <<"r0">> ELSE <<"r1">>
ExplainEvents(riskText) ==
    { AbortEvent, RejectEvent(<<"Failed to fetch">>),
      ResponseEvent(500, JsonBody(JObj(<<>>))),
      ResponseEvent(200, JsonBody(JObj(<<>>))),
      ResponseEvent(200, JsonBody(JObj(<<Member(<<"explanation">>,
                                                JStr(<<"E">> \o riskText))>>))) }

\* handleExplain(flag.text, idx) up to `await explainRisk(...)`, from the
\* Explain Risk button of the flag, disabled while explainingRiskId === idx
handleExplain(idx) ==
    /\ report.explainingRiskId # idx
    /\ report.explanations[idx] = <<>>
    /\ Len(report.inFlight) < MaxExplains
    /\ Validate("explainRisk", TextInput(RiskText(idx))) = <<>>
    /\ report' = [report EXCEPT !.explainingRiskId = idx,
                                !.inFlight = Append(@, [idx |-> idx,
                                                        riskText |-> RiskText(idx)])]
    /\ UNCHANGED <<storeVars, pageVars, runVars, netVars, histVars, analysisResult,
                   mounted, isReanalyzing, api, reanalyses, storeOps, home>>

\* one of the calls in flight ends: setExplanations(prev => ...) on a value,
\* console.error on an error, setExplainingRiskId(null) in either case
explainReturns(k, ev) ==
    /\ k \in 1..Len(report.inFlight)
    /\ LET call == report.inFlight[k]
           outcome == explainRisk(ev)
           rest == [i \in 1..(Len(report.inFlight) - 1) |->
                      IF i < k THEN report.inFlight[i] ELSE report.inFlight[i + 1]]
       IN /\ ev \in ExplainEvents(call.riskText)
          /\ report' = [report EXCEPT
                          !.explanations[call.idx] =
                              IF outcome.kind = "value" THEN TextOf(outcome.value) ELSE @,
                          !.explainingRiskId = -1,
                          !.inFlight = rest]
    /\ UNCHANGED <<storeVars, pageVars, runVars, netVars, histVars, analysisResult,
                   mounted, isReanalyzing, api, reanalyses, storeOps, home>>

\* ------------------------------------------------------------- leaving the page
\* The user leaves /negotiation (browser back, a link, a redirect): the page
\* unmounts.  No effect of the page returns a cleanup function and no
\* AbortController is handed to negotiateChat, so a run in flight goes on.
navigateAway ==
    /\ mounted
    /\ pc # "returned"
    /\ mounted' = FALSE
    /\ UNCHANGED <<storeVars, pageVars, runVars, netVars, histVars,
                   analysisResult, isReanalyzing, api, reanalyses, storeOps, otherPages>>

\* ------------------------------------------------------------- specifications
HeldBytes == 0..2   \* a record in transit has at most two bytes outstanding

\* The whole page: every handler; reads deliver whole lines.
Next ==
    \/ \E id \in Ids(clauses) : toggleClauseSelection(id)
    \/ \E t \in Tabs : selectTab(t)
    \/ \E v \in ChatInputs : typeChatInput(v)
    \/ handleChatSend
    \/ processClause
    \/ processAllClauses
    \/ fetchResolves
    \/ \E kind \in FetchErrors : fetchFails(kind)
    \/ \E recs \in SeqsOf(Records, 1, MaxPerRead) : readChunk(recs, 0, PageRecords)
    \/ editWaitOver
    \/ readDone
    \/ readFails
    \/ chatReturns
    \/ clauseReturns
    \/ allReturn

Spec == Init /\ [][Next]_vars

\* One run of processNegotiation, as handleChatSend starts it on the freshly
\* mounted page: the user message is in the transcript and the request is out.
InitRun ==
    /\ contractContent \in Contracts
    /\ \E a \in MountedAnalyses :
          analysisResult = <<a>> /\ flags = convertAnalysisToFlags(a)
    /\ mounted = TRUE /\ isReanalyzing = FALSE /\ api = ApiIdle /\ reanalyses = 0
    /\ home = HomeIdle /\ report = ReportIdle
    /\ storeOps = <<>>
    /\ contractText = cleanPdfText(contractContent)
    /\ clauses = FlagsToClauses(flags)
    /\ selectedClauseIds = <<>>
    /\ isProcessing = TRUE
    /\ activeTab \in Tabs
    /\ chatInput = <<>>
    /\ messages = <<UserMsg(<<"h", "i">>)>>
    /\ announcedClauses = {}
    /\ pc = "fetch" /\ caller = "chat" /\ clauseId = <<>> /\ targets = {}
    /\ capturedSelection = <<>> /\ agentResponse = <<>> /\ fullProposedEdit = <<>>
    /\ isEditMode = FALSE /\ hasShownMessage = FALSE /\ pending = <<>>
    /\ wire = <<>> /\ written = 0
    /\ wholeLines = [events |-> <<>>, rest |-> <<>>]
    /\ lineLog = <<>> /\ events = <<>> /\ editLog = <<>>
    /\ failed = FALSE
    /\ turnStart = [doc |-> contractText, agents |-> 0, replies |-> <<>>]
    /\ turns = 1

\* The run against a stream whose reads cut the lines anywhere.
NextWire ==
    \/ fetchResolves
    \/ \E kind \in FetchErrors : fetchFails(kind)
    \/ \E recs \in SeqsOf(Records, 0, MaxPerRead), held \in HeldBytes :
          readChunk(recs, held, WireRecords)
    \/ editWaitOver
    \/ readDone
    \/ readFails
    \/ chatReturns

SpecWire == InitRun /\ [][NextWire]_vars

\* The run against a stream whose reads deliver whole lines, the user free
\* to change tabs meanwhile.
NextReconciler ==
    \/ \E t \in Tabs : selectTab(t)
    \/ fetchResolves
    \/ \E kind \in FetchErrors : fetchFails(kind)
    \/ \E recs \in SeqsOf(Records, 1, MaxPerRead) : readChunk(recs, 0, MaxRecords)
    \/ editWaitOver
    \/ readDone
    \/ readFails
    \/ chatReturns

SpecReconciler == InitRun /\ [][NextReconciler]_vars

\* The page as one answered chat turn has left it: the user had selected a
\* clause or none, asked "hi", and the turn ended with the reply "A" or with
\* the error message of a failed request.
EarlierSelections == { <<>>, << <<"red", 0>> >> }
EarlierReplies == { <<"A">>, ErrorText("status") }

InitAfterReply ==
    /\ contractContent \in Contracts
    /\ \E a \in MountedAnalyses :
          analysisResult = <<a>> /\ flags = convertAnalysisToFlags(a)
    /\ mounted = TRUE /\ isReanalyzing = FALSE /\ api = ApiIdle /\ reanalyses = 0
    /\ home = HomeIdle /\ report = ReportIdle
    /\ storeOps = <<>>
    /\ contractText = cleanPdfText(contractContent)
    /\ clauses = FlagsToClauses(flags)
    /\ selectedClauseIds \in EarlierSelections
    /\ announcedClauses = Range(selectedClauseIds)
    /\ isProcessing = FALSE
    /\ activeTab = "copilot"
    /\ chatInput = <<>>
    /\ \E reply \in EarlierReplies :
          messages =
            [i \in 1..Len(selectedClauseIds) |->
                UserMsg(Announcement(Find(clauses, selectedClauseIds[i])[1].title))]
            \o <<UserMsg(<<"h", "i">>), AgentMsg(reply)>>
    /\ NoRun
    /\ wire = <<>> /\ written = 0
    /\ wholeLines = [events |-> <<>>, rest |-> <<>>]
    /\ lineLog = <<>> /\ events = <<>> /\ editLog = <<>>
    /\ failed = FALSE
    /\ turnStart = [doc |-> contractText, agents |-> 0, replies |-> <<>>]
    /\ turns = 0

\* The turn that follows it.
NextHistory ==
    \/ \E id \in Ids(clauses) : toggleClauseSelection(id)
    \/ \E v \in ChatInputs : typeChatInput(v)
    \/ handleChatSend
    \/ processClause
    \/ processAllClauses
    \/ fetchResolves
    \/ \E kind \in FetchErrors : fetchFails(kind)
    \/ \E recs \in SeqsOf(Records, 1, MaxPerRead) : readChunk(recs, 0, PageRecords)
    \/ editWaitOver
    \/ readDone
    \/ readFails
    \/ chatReturns
    \/ clauseReturns
    \/ allReturn

SpecHistory == InitAfterReply /\ [][NextHistory]_vars

\* The page while a chat turn is in flight: the user had selected a clause or
\* none, typed "hi" and sent it; the request is out. Every way of starting
\* another run is tried while the turn goes on and after it.
InitInFlight ==
    /\ contractContent \in Contracts
    /\ \E a \in MountedAnalyses :
          analysisResult = <<a>> /\ flags = convertAnalysisToFlags(a)
    /\ mounted = TRUE /\ isReanalyzing = FALSE /\ api = ApiIdle /\ reanalyses = 0
    /\ home = HomeIdle /\ report = ReportIdle
    /\ storeOps = <<>>
    /\ contractText = cleanPdfText(contractContent)
    /\ clauses = FlagsToClauses(flags)
    /\ selectedClauseIds \in EarlierSelections
    /\ announcedClauses = Range(selectedClauseIds)
    /\ isProcessing = TRUE
    /\ activeTab = "copilot"
    /\ chatInput = <<>>
    /\ messages =
          [i \in 1..Len(selectedClauseIds) |->
              UserMsg(Announcement(Find(clauses, selectedClauseIds[i])[1].title))]
          \o <<UserMsg(<<"h", "i">>)>>
    /\ pc = "fetch" /\ caller = "chat" /\ clauseId = <<>> /\ targets = {}
    /\ capturedSelection = <<>> /\ agentResponse = <<>> /\ fullProposedEdit = <<>>
    /\ isEditMode = FALSE /\ hasShownMessage = FALSE /\ pending = <<>>
    /\ wire = <<>> /\ written = 0
    /\ wholeLines = [events |-> <<>>, rest |-> <<>>]
    /\ lineLog = <<>> /\ events = <<>> /\ editLog = <<>>
    /\ failed = FALSE
    /\ turnStart = [doc |-> contractText, agents |-> 0, replies |-> <<>>]
    /\ turns = 0

NextGate ==
    \/ \E id \in Ids(clauses) : toggleClauseSelection(id)
    \/ \E v \in ChatInputs : typeChatInput(v)
    \/ handleChatSend
    \/ processClause
    \/ processAllClauses
    \/ fetchResolves
    \/ \E kind \in FetchErrors : fetchFails(kind)
    \/ \E recs \in SeqsOf(Records, 1, MaxPerRead) : readChunk(recs, 0, GateRecords)
    \/ editWaitOver
    \/ readDone
    \/ readFails
    \/ chatReturns
    \/ clauseReturns
    \/ allReturn

SpecGate == InitInFlight /\ [][NextGate]_vars

\* Selecting clauses and re-analysing the contract; the page is left 500 ms
\* after a re-analysis (router.push('/report')) or whenever the user likes.
NextReanalyze ==
    \/ \E id \in Ids(clauses) : toggleClauseSelection(id)
    \/ handleReanalyze
    \/ \E result \in Analyses : reanalyzeSucceeds(result)
    \/ reanalyzeFails
    \/ navigateAway

SpecReanalyze == Init /\ [][NextReanalyze]_vars

\* The contract-store by itself: created with its initial state, no page on
\* screen, its actions called in any order.
InitStore ==
    /\ contractContent = reset.contractContent
    /\ analysisResult = reset.analysisResult
    /\ flags = reset.flags
    /\ mounted = FALSE /\ isReanalyzing = FALSE /\ api = ApiIdle /\ reanalyses = 0
    /\ home = HomeIdle /\ report = ReportIdle
    /\ storeOps = <<>>
    /\ contractText = <<>> /\ clauses = <<>> /\ selectedClauseIds = <<>>
    /\ isProcessing = FALSE /\ activeTab = "clauses" /\ chatInput = <<>>
    /\ messages = <<>> /\ announcedClauses = {}
    /\ NoRun
    /\ wire = <<>> /\ written = 0
    /\ wholeLines = [events |-> <<>>, rest |-> <<>>]
    /\ lineLog = <<>> /\ events = <<>> /\ editLog = <<>>
    /\ failed = FALSE
    /\ turnStart = [doc |-> <<>>, agents |-> 0, replies |-> <<>>]
    /\ turns = 0

StoreContents == { <<>>, <<"a">>, <<"a", NL, "b", SP, ".">> }

StoreCall(op, arg) ==
    /\ Len(storeOps) < MaxStoreOps
    /\ storeOps' = Append(storeOps, [op |-> op, arg |-> arg])
    /\ UNCHANGED <<pageVars, runVars, netVars, histVars, mounted, isReanalyzing,
                   api, reanalyses, otherPages>>

callSetContract(content) ==
    /\ contractContent' = setContract(content).contractContent
    /\ UNCHANGED <<analysisResult, flags>>
    /\ StoreCall("setContract", content)

callSetAnalysis(analysis) ==
    /\ analysisResult' = setAnalysis(analysis).analysisResult
    /\ flags' = setAnalysis(analysis).flags
    /\ UNCHANGED contractContent
    /\ StoreCall("setAnalysis", analysis)

callRemoveNegotiatedClause(id) ==
    /\ flags' = removeNegotiatedClause(flags, id)
    /\ UNCHANGED <<contractContent, analysisResult>>
    /\ StoreCall("removeNegotiatedClause", id)

callUpdateContractContent(content) ==
    /\ contractContent' = updateContractContent(content).contractContent
    /\ UNCHANGED <<analysisResult, flags>>
    /\ StoreCall("updateContractContent", content)

callReset ==
    /\ contractContent' = reset.contractContent
    /\ analysisResult' = reset.analysisResult
    /\ flags' = reset.flags
    /\ StoreCall("reset", <<>>)

NextStore ==
    \/ \E content \in StoreContents : callSetContract(content)
    \/ \E analysis \in Analyses : callSetAnalysis(analysis)
    \/ \E id \in Ids(flags) : callRemoveNegotiatedClause(id)
    \/ \E content \in StoreContents : callUpdateContractContent(content)
    \/ callReset

SpecStore == InitStore /\ [][NextStore]_vars

\* The store under setAnalysis and removeNegotiatedClause, the latter with
\* ids the store holds and ids it does not.
FlagIds == {<<"red", 0>>, <<"red", 1>>, <<"yellow", 0>>, <<"green", 0>>, <<"yellow", 1>>}

NextIdentity ==
    \/ \E analysis \in Analyses : callSetAnalysis(analysis)
    \/ \E id \in FlagIds : callRemoveNegotiatedClause(id)

SpecIdentity == InitStore /\ [][NextIdentity]_vars

\* The page loaded with any short contract text, and re-analysis, which
\* stores the text shown and so has the loading effect clean it again.
RawTexts == SeqsOf({"a", NL, SP}, 1, MaxTextLen)

InitClean ==
    /\ contractContent \in RawTexts
    /\ \E a \in MountedAnalyses :
          analysisResult = <<a>> /\ flags = convertAnalysisToFlags(a)
    /\ mounted = TRUE /\ isReanalyzing = FALSE /\ api = ApiIdle /\ reanalyses = 0
    /\ home = HomeIdle /\ report = ReportIdle
    /\ storeOps = <<>>
    /\ contractText = cleanPdfText(contractContent)
    /\ clauses = FlagsToClauses(flags)
    /\ selectedClauseIds = <<>>
    /\ isProcessing = FALSE
    /\ activeTab = "clauses"
    /\ chatInput = <<>>
    /\ messages = <<>>
    /\ announcedClauses = {}
    /\ NoRun
    /\ wire = <<>> /\ written = 0
    /\ wholeLines = [events |-> <<>>, rest |-> <<>>]
    /\ lineLog = <<>> /\ events = <<>> /\ editLog = <<>>
    /\ failed = FALSE
    /\ turnStart = [doc |-> contractText, agents |-> 0, replies |-> <<>>]
    /\ turns = 0

NextClean ==
    \/ handleReanalyze
    \/ \E result \in Analyses : reanalyzeSucceeds(result)
    \/ reanalyzeFails

SpecClean == InitClean /\ [][NextClean]_vars

\* Every operation that shows a busy state, with a network that answers every
\* request and read in the end: either NegotiationPage is on screen (runs of
\* processNegotiation and re-analysis) or the Home page is (handleAnalyze).
InitLive ==
    \/ Init
    \/ InitStore

NetworkStep ==
    \/ fetchResolves
    \/ \E kind \in FetchErrors : fetchFails(kind)
    \/ \E recs \in SeqsOf(Records, 1, MaxPerRead) : readChunk(recs, 0, GateRecords)
    \/ editWaitOver
    \/ readDone
    \/ readFails
    \/ \E result \in Analyses : reanalyzeSucceeds(result)
    \/ reanalyzeFails
    \/ ~mounted /\ \E ev \in HomeEvents : apiSettles(ev)

ContinuationStep ==
    \/ chatReturns
    \/ clauseReturns
    \/ allReturn
    \/ \E storageFull \in BOOLEAN : analyzeReturns(storageFull)

UserStep ==
    \/ \E id \in Ids(clauses) : toggleClauseSelection(id)
    \/ \E v \in ChatInputs : typeChatInput(v)
    \/ handleChatSend
    \/ processClause
    \/ processAllClauses
    \/ handleReanalyze
    \/ ~mounted /\ \E file \in HomeFiles : handleFileChange(file)
    \/ ~mounted /\ handleAnalyze

NextLive == UserStep \/ NetworkStep \/ ContinuationStep

\* Scheduling.  A pending fetch or read settles, the 1500 ms timer fires and
\* the continuation of an await runs.  With NextLive, a step that moves pc
\* from one of these positions is a step of fetchResolves, fetchFails,
\* readChunk, editWaitOver, readDone, readFails or one of the three returns,
\* and one of them is enabled at each position: the condition is weak
\* fairness of their disjunction, written over pc alone.
RunAdvances ==
    /\ pc \in {"fetch", "reading", "editWait", "returned"}
    /\ pc' \in {"reading", "editWait", "returned", "idle"}
    /\ pc' # pc

\* the page's analyzeContract settles: reanalyzeSucceeds or reanalyzeFails,
\* the only steps of the page that end the request
ReanalysisSettles ==
    /\ isReanalyzing /\ api.pc = "fetching" /\ pc # "returned"
    /\ api' = ApiIdle

\* the Home page's request settles and handleAnalyze goes on
HomeAdvances ==
    \/ ~mounted /\ \E ev \in HomeEvents : apiSettles(ev)
    \/ \E storageFull \in BOOLEAN : analyzeReturns(storageFull)

SpecLive ==
    /\ InitLive /\ [][NextLive]_vars
    /\ WF_pc(RunAdvances) /\ WF_api(ReanalysisSettles) /\ WF_vars(HomeAdvances)

\* The functions of lib/api by themselves, one call at a time.
NextApi ==
    \/ \E fn \in ApiFunctions : \E input \in ApiInputs(fn) : apiCall(fn, input)
    \/ \E ev \in NetEvents(api.fn) : apiSettles(ev)
    \/ apiDone

SpecApi == InitStore /\ [][NextApi]_vars

\* Clause turns on a page the user may leave at any moment.
NextAbandon ==
    \/ \E id \in Ids(clauses) : toggleClauseSelection(id)
    \/ processClause
    \/ navigateAway
    \/ fetchResolves
    \/ \E kind \in FetchErrors : fetchFails(kind)
    \/ \E recs \in SeqsOf(Records, 1, MaxPerRead) : readChunk(recs, 0, PageRecords)
    \/ editWaitOver
    \/ readDone
    \/ readFails
    \/ clauseReturns

SpecAbandon == Init /\ [][NextAbandon]_vars

\* ReportDashboard by itself: Explain Risk on either flag, answers in any order.
NextReport ==
    \/ \E idx \in RiskIndexes : handleExplain(idx)
    \/ \E k \in 1..MaxExplains, idx \in RiskIndexes :
          \E ev \in ExplainEvents(RiskText(idx)) : explainReturns(k, ev)

SpecReport == InitStore /\ [][NextReport]_vars

\* The contract view: contracts and clause anchors that lie apart, overlap,
\* nest or coincide; the view is rendered again on every selection.
Anchors ==
    { <<"a", "b">>, <<"b">>, <<"B", SP, NL, "c">>, <<"c", "d">>, <<"x">>, <<"N/A">> }
AnchoredAnalyses ==
    { [red_flags |-> <<Flag("h1", "t1", first)>>,
       yellow_flags |-> <<Flag("h2", "t2", second)>>,
       green_flags |-> <<>>] : first \in Anchors, second \in Anchors }
AnchoredContracts == { <<"a", "b", SP, "c", "d">>, <<"a", "b", "a", "b">> }

InitHighlight ==
    /\ contractContent \in AnchoredContracts
    /\ \E a \in AnchoredAnalyses :
          analysisResult = <<a>> /\ flags = convertAnalysisToFlags(a)
    /\ mounted = TRUE /\ isReanalyzing = FALSE /\ api = ApiIdle /\ reanalyses = 0
    /\ home = HomeIdle /\ report = ReportIdle
    /\ storeOps = <<>>
    /\ contractText = cleanPdfText(contractContent)
    /\ clauses = FlagsToClauses(flags)
    /\ selectedClauseIds = <<>>
    /\ isProcessing = FALSE
    /\ activeTab = "clauses"
    /\ chatInput = <<>>
    /\ messages = <<>>
    /\ announcedClauses = {}
    /\ NoRun
    /\ wire = <<>> /\ written = 0
    /\ wholeLines = [events |-> <<>>, rest |-> <<>>]
    /\ lineLog = <<>> /\ events = <<>> /\ editLog = <<>>
    /\ failed = FALSE
    /\ turnStart = [doc |-> contractText, agents |-> 0, replies |-> <<>>]
    /\ turns = 0

NextHighlight ==
    \/ \E id \in Ids(clauses) : toggleClauseSelection(id)
    \/ \E t \in Tabs : selectTab(t)

SpecHighlight == InitHighlight /\ [][NextHighlight]_vars

\* The Home page by itself.
NextHome ==
    \/ \E t \in HomeTabs : homeSetActiveTab(t)
    \/ \E file \in HomeFiles : handleFileChange(file)
    \/ \E v \in Texts : homeSetText(v)
    \/ \E j \in Jurisdictions : setJurisdiction(j)
    \/ handleAnalyze
    \/ \E ev \in HomeEvents : apiSettles(ev)
    \/ \E storageFull \in BOOLEAN : analyzeReturns(storageFull)

SpecHome == InitStore /\ [][NextHome]_vars

\* The clause list by itself: the user selects and deselects clauses, changes
\* tab and types, with any analysis in the store and no negotiation started.
InitSelection ==
    /\ contractContent \in Contracts
    /\ \E a \in Analyses :
          analysisResult = <<a>> /\ flags = convertAnalysisToFlags(a)
    /\ mounted = TRUE /\ isReanalyzing = FALSE /\ api = ApiIdle /\ reanalyses = 0
    /\ home = HomeIdle /\ report = ReportIdle
    /\ storeOps = <<>>
    /\ contractText = cleanPdfText(contractContent)
    /\ clauses = FlagsToClauses(flags)
    /\ selectedClauseIds = <<>>
    /\ isProcessing = FALSE
    /\ activeTab = "clauses"
    /\ chatInput = <<>>
    /\ messages = <<>>
    /\ announcedClauses = {}
    /\ NoRun
    /\ wire = <<>> /\ written = 0
    /\ wholeLines = [events |-> <<>>, rest |-> <<>>]
    /\ lineLog = <<>> /\ events = <<>> /\ editLog = <<>>
    /\ failed = FALSE
    /\ turnStart = [doc |-> contractText, agents |-> 0, replies |-> <<>>]
    /\ turns = 0

NextSelection ==
    \/ \E id \in Ids(clauses) : toggleClauseSelection(id)
    \/ \E t \in Tabs : selectTab(t)
    \/ \E v \in ChatInputs : typeChatInput(v)

SpecSelection == InitSelection /\ [][NextSelection]_vars

\* The run as sent from the copilot panel, against a stream long enough for
\* several deltas of each kind; reads deliver whole lines.
InitTurn == InitRun /\ activeTab = "copilot"

NextTurn ==
    \/ fetchResolves
    \/ \E kind \in FetchErrors : fetchFails(kind)
    \/ \E recs \in SeqsOf(Records, 1, MaxPerRead) : readChunk(recs, 0, TurnRecords)
    \/ editWaitOver
    \/ readDone
    \/ readFails
    \/ chatReturns

SpecTurn == InitTurn /\ [][NextTurn]_vars

\* ------------------------------------------------------------- claims
Streaming == pc \in {"reading", "editWait"}
StreamEnded == pc \in {"returned", "idle"} /\ turns > 0 /\ ~failed

\* the concatenated contents of the events of one type
RECURSIVE ContentsOf(_, _)
ContentsOf(evs, type) ==
    IF evs = <<>> THEN <<>>
    ELSE (IF Head(evs).type = type THEN Head(evs).content ELSE <<>>)
         \o ContentsOf(Tail(evs), type)

Types(evs) == [i \in 1..Len(evs) |-> evs[i].type]
Has(evs, type) == \E i \in 1..Len(evs) : evs[i].type = type
LastAgentText(msgs) ==
    LET at == {i \in 1..Len(msgs) : msgs[i].role = "agent"}
    IN msgs[CHOOSE i \in at : \A j \in at : j <= i].text
IsError(m) == m.role = "agent" /\ m.text # <<>> /\ m.text[1] = "Error:"
ErrorCount(msgs) == Cardinality({i \in 1..Len(msgs) : IsError(msgs[i])})

\* the document as the events dispatched so far leave it: each edit_delta
\* taken in edit mode extends the buffer and replaces the document by it
RECURSIVE DocAfter(_, _)
DocAfter(evs, d) ==
    IF evs = <<>> THEN d.doc
    ELSE LET e == Head(evs) IN
         CASE e.type = "edit_start" ->
                DocAfter(Tail(evs), [d EXCEPT !.mode = TRUE, !.buf = <<>>])
           [] e.type = "edit_delta" /\ d.mode ->
                DocAfter(Tail(evs), [d EXCEPT !.buf = d.buf \o e.content,
                                              !.doc = d.buf \o e.content])
           [] e.type = "done" -> DocAfter(Tail(evs), [d EXCEPT !.mode = FALSE])
           [] OTHER -> DocAfter(Tail(evs), d)

DocumentOf(evs) == DocAfter(evs, [doc |-> turnStart.doc, mode |-> FALSE, buf |-> <<>>])

\* the events of the stream received so far when it is cut at its newlines
\* only: those of its complete lines, and of the open last line
WholeLineEvents ==
    wholeLines.events \o ParsedOf(SplitLines(wholeLines.rest))

\* C1: when the stream has ended, the agent's text and the document are
\* those the events of the received byte stream produce when it is cut at
\* its newlines only, however the reads cut it: every line is reassembled
\* before it is parsed.
C1_LineReassembly ==
    StreamEnded =>
        /\ agentResponse = ContentsOf(WholeLineEvents, "text_delta")
        /\ contractText = DocumentOf(WholeLineEvents)

\* C2: while a turn streams and has seen at least one text_delta, the
\* transcript holds exactly one agent message of this turn, and its text is
\* the concatenation of the text_delta contents so far, whatever the user
\* toggled meanwhile.
C2_OneAgentMessagePerTurn ==
    (Streaming /\ Has(events, "text_delta")) =>
        /\ AgentCount(messages) <= turnStart.agents + 1
        /\ LastAgentText(messages) = ContentsOf(events, "text_delta")

\* the shape text_delta+, edit_start, edit_delta+, done
IsMessageThenEdit(evs) ==
    \E n \in 1..Len(evs), m \in 1..Len(evs) :
        /\ Len(evs) = n + m + 2
        /\ \A i \in 1..n : evs[i].type = "text_delta"
        /\ evs[n + 1].type = "edit_start"
        /\ \A i \in (n + 2)..(n + m + 1) : evs[i].type = "edit_delta"
        /\ evs[n + m + 2].type = "done"

C4_FailedTurnKeepsClauses ==
    (pc = "idle" /\ failed /\ caller \in {"one", "all"} /\ ~Has(events, "done")) =>
        /\ targets \subseteq Ids(clauses)
        /\ targets \subseteq Ids(flags)

\* the step in which processClause / processAllClauses finish a turn that
\* saw a done event and did not fail
SuccessfulTurnEnds ==
    /\ pc = "returned" /\ pc' = "idle"
    /\ caller \in {"one", "all"}
    /\ ~failed /\ Has(events, "done")

\* C5 as stated: a successful turn removes exactly the targeted ids from the
\* clause list, from the store's flags and from the selection.
C5_ExactRemoval ==
    [][SuccessfulTurnEnds =>
         /\ Ids(clauses') = Ids(clauses) \ targets
         /\ Ids(flags') = Ids(flags) \ targets
         /\ Range(selectedClauseIds') = Range(selectedClauseIds) \ targets]_vars

\* C5 as amended: a successful turn removes exactly the targeted ids from the
\* clause list and from the store's flags; processClause takes only its
\* clause out of the selection, processAllClauses empties the selection.
C5_TargetsRemoved ==
    [][SuccessfulTurnEnds =>
         /\ Ids(clauses') = Ids(clauses) \ targets
         /\ Ids(flags') = Ids(flags) \ targets
         /\ Range(selectedClauseIds') =
              IF caller = "one" THEN Range(selectedClauseIds) \ targets ELSE {}]_vars

\* processAllClauses has finished a successful turn during which the user
\* selected a clause it did not target: the clause is still listed, was
\* announced, and is no longer selected
C5_Witness ==
    /\ pc = "idle" /\ caller = "all" /\ ~failed /\ Has(events, "done")
    /\ targets \cap Ids(clauses) = {}
    /\ targets \cap Ids(flags) = {}
    /\ \E id \in announcedClauses \ Range(selectedClauseIds) : id \in Ids(clauses)

\* C6: once a turn that failed in transport is over, the transcript has
\* gained exactly one error message, the page is idle, and the document is
\* what the edits applied before the failure made it.
C6_FailureKeepsPartialEdit ==
    (pc = "idle" /\ failed) =>
        /\ ErrorCount(messages) = 1
        /\ ~isProcessing
        /\ contractText = DocumentOf(events)

\* C7 as stated: once a done event has been processed the reconciler is idle
\* and edit mode is off.
C7_DoneMeansIdle ==
    (events # <<>> /\ events[Len(events)].type = "done") =>
        ~isProcessing /\ ~isEditMode

\* C7 as amended: processing a done event clears edit mode; the page stays
\* in the processing state exactly until the stream ends or fails.
C7_DoneClearsEditMode ==
    /\ (events # <<>> /\ events[Len(events)].type = "done") => ~isEditMode
    /\ isProcessing <=> pc \in {"fetch", "reading", "editWait"}

\* a done event was processed in edit mode and the stream is still open
C7_Witness ==
    /\ pc = "reading" /\ isProcessing
    /\ Len(events) >= 2
    /\ events[Len(events)].type = "done"
    /\ events[Len(events) - 1].type = "edit_start"

\* C8: every edit_start dispatched made exactly one transition into edit
\* mode, which cleared the edit buffer and showed the contract panel.
C8_EveryEditStartSwitchesView ==
    /\ Len(editLog) = Cardinality({i \in 1..Len(events) : events[i].type = "edit_start"})
    /\ \A i \in 1..Len(editLog) :
          editLog[i] = [tab |-> "contract", buffer |-> <<>>, editMode |-> TRUE]

\* the document C9 states: the start value until an edit_delta is taken in
\* edit mode, then the contents taken since the most recent edit_start
RECURSIVE SinceLastEditStart(_, _)
SinceLastEditStart(evs, d) ==
    IF evs = <<>> THEN IF d.any THEN d.buf ELSE turnStart.doc
    ELSE LET e == Head(evs) IN
         CASE e.type = "edit_start" ->
                SinceLastEditStart(Tail(evs), [d EXCEPT !.mode = TRUE, !.buf = <<>>])
           [] e.type = "edit_delta" /\ d.mode ->
                SinceLastEditStart(Tail(evs), [d EXCEPT !.buf = d.buf \o e.content,
                                                        !.any = TRUE])
           [] e.type = "done" -> SinceLastEditStart(Tail(evs), [d EXCEPT !.mode = FALSE])
           [] OTHER -> SinceLastEditStart(Tail(evs), d)

\* C9 as stated: during a stream the document is its start value until the
\* first edit_delta taken in edit mode, and from then on the concatenation
\* of the edit_delta contents taken since the most recent edit_start.
C9_DocumentSinceLatestEditStart ==
    (turns > 0 /\ pc # "idle") =>
        contractText = SinceLastEditStart(events, [mode |-> FALSE, buf |-> <<>>, any |-> FALSE])

\* C9 as amended: during a stream the document is its start value until the
\* first edit_delta taken in edit mode, and from then on the edit buffer as
\* the most recent such edit_delta left it; an edit_start empties the buffer
\* but not the document, and no other event changes the document.
C9_DocumentIsLastBuffer ==
    (turns > 0 /\ pc # "idle") => contractText = DocumentOf(events)

\* a second edit_start has been dispatched and the document still shows the
\* edit streamed before it
C9_Witness ==
    /\ Streaming
    /\ Len(events) >= 3
    /\ events[Len(events)].type = "edit_start"
    /\ contractText # turnStart.doc
    /\ contractText # <<>>
    /\ fullProposedEdit = <<>>

\* the events the for loop has had to dispatch: those of the lines handed
\* to it, less the lines that wait behind the pause of the first edit_start
Dispatched ==
    IF pc = "editWait"
    THEN events \o <<[type |-> "edit_start", content |-> <<>>]>> \o ParsedOf(pending)
    ELSE events

\* C10: the events dispatched are exactly the well-formed lines handed to
\* the loop, in order, whatever unparseable lines stood between them, and a
\* run that did not fail in transport has put no error message in the transcript.
C10_MalformedLineSkipped ==
    /\ Dispatched = ParsedOf(lineLog)
    /\ (turns > 0 /\ ~failed) => ErrorCount(messages) = 0

\* the stream ended normally after an unparseable line that stood between
\* two well-formed records, both of which were dispatched
C10_Witness ==
    /\ pc = "idle" /\ ~failed
    /\ \E i, j, k \in 1..Len(lineLog) :
          /\ i < j /\ j < k
          /\ ParseOk(lineLog[i]) /\ ~ParseOk(lineLog[j]) /\ ParseOk(lineLog[k])
    /\ Len(events) = 2
\* C11: once the page has been abandoned, the run dispatches no further
\* event and nothing changes the transcript, the document, the clause list,
\* the selection or the store.
C11_NothingAfterAbandon ==
    [][~mounted =>
         /\ events' = events
         /\ messages' = messages /\ contractText' = contractText
         /\ clauses' = clauses /\ selectedClauseIds' = selectedClauseIds
         /\ flags' = flags /\ contractContent' = contractContent
         /\ analysisResult' = analysisResult]_vars

\* s is an initial segment of t
IsPrefix(s, t) == Len(s) <= Len(t) /\ SubSeq(t, 1, Len(s)) = s

\* C12: the agent messages the transcript held when a turn began are still
\* there, unchanged and in order, whatever the turn's text_delta events did:
\* the turn only adds agent messages after them.
C12_EarlierRepliesKept ==
    turns > 0 => IsPrefix(turnStart.replies, AgentTexts(messages))

\* C13: while the page is on screen every selected id is the id of a clause
\* of the live clause list.
C13_SelectionWithinClauses ==
    mounted => Range(selectedClauseIds) \subseteq Ids(clauses)

\* C14: in every state of the store the analysis and the contract text are
\* both set or both absent.
C14_AnalysisAndContractTogether ==
    (analysisResult # <<>>) <=> (contractContent # <<>>)

\* the negotiable clauses an analysis stands for: one per red flag, then one
\* per yellow flag, in the flags' order, numbered from 0 within each severity
ExpectedClauses(analysis) ==
    [i \in 1..Len(analysis.red_flags) |->
        [id |-> <<"red", i - 1>>, text |-> analysis.red_flags[i].analysis,
         original_text |-> analysis.red_flags[i].original_text]]
    \o [i \in 1..Len(analysis.yellow_flags) |->
        [id |-> <<"yellow", i - 1>>, text |-> analysis.yellow_flags[i].analysis,
         original_text |-> analysis.yellow_flags[i].original_text]]

\* id, text and original text of the clauses the page derives from flags
DerivedClauses(fl) ==
    LET cl == FlagsToClauses(fl)
    IN [i \in 1..Len(cl) |->
          [id |-> cl[i].id, text |-> cl[i].text, original_text |-> cl[i].original_text]]

LastStoreOp == storeOps[Len(storeOps)]

\* C15: right after setAnalysis(a) the store holds a as its analysis, and the
\* clause list derived from its flags is exactly the one a stands for,
\* whatever the store held and whatever had been removed before.
C15_SetAnalysisReplaces ==
    (storeOps # <<>> /\ LastStoreOp.op = "setAnalysis") =>
        /\ analysisResult = <<LastStoreOp.arg>>
        /\ DerivedClauses(flags) = ExpectedClauses(LastStoreOp.arg)
        /\ flags = convertAnalysisToFlags(LastStoreOp.arg)

\* setAnalysis was called on a store that held another analysis, one of
\* whose clauses had been removed
C15_Witness ==
    /\ Len(storeOps) = 3
    /\ storeOps[1].op = "setAnalysis"
    /\ storeOps[2].op = "removeNegotiatedClause"
    /\ storeOps[3].op = "setAnalysis"
    /\ storeOps[3].arg # storeOps[1].arg
    /\ Len(DerivedClauses(flags)) = 3

\* the call of lib/api that has settled: its function, argument, network
\* event and outcome
Settled == api.pc = "settled"
Answered == api.pc = "settled" /\ api.response # <<>>
ApiEvent == api.response[1]
ApiOutcome == api.outcome[1]
IsApiError(outcome, statusCode) ==
    outcome.kind = "error" /\ outcome.error.cls = "ApiError"
    /\ outcome.error.statusCode = statusCode

\* the arguments C16 says are rejected
MustReject(fn, input) ==
    CASE fn = "analyzeContract" ->
           \/ input.kind = "file" /\ input.size \in {0, 10485761}
           \/ input.kind = "text" /\ Trim(input.text) = <<>>
      [] fn = "explainRisk" -> input.text = <<>>
      [] fn = "extractText" -> input.kind = "file" /\ input.size = 0
      [] fn = "redlineClause" ->
           input.kind = "file" /\ (input.size = 0 \/ ~EndsWith(input.name, ".docx"))
      [] OTHER -> FALSE

\* C16: a call with an argument that must be rejected ends in an ApiError of
\* status 400 without any request; analyzeContract with a file of exactly
\* 10 MiB issues its request.
C16_ValidationBeforeNetwork ==
    api.pc \in {"fetching", "settled"} =>
        /\ MustReject(api.fn, api.input) =>
              Settled /\ api.requests = 0 /\ IsApiError(ApiOutcome, 400)
        /\ (api.fn = "analyzeContract" /\ api.input.kind = "file"
             /\ api.input.size = 10485760) => api.requests = 1

\* analyzeContract has rejected a file of 10 MiB + 1 byte
C16_Witness ==
    /\ Settled /\ api.fn = "analyzeContract"
    /\ api.input.kind = "file" /\ api.input.size = 10485761
    /\ api.requests = 0 /\ IsApiError(ApiOutcome, 400)

\* the user is told that the request timed out
SaysTimedOut(outcome) ==
    outcome.kind = "error" /\ Includes(getUserFriendlyMessage(outcome.error), "timed out")

\* C17: a call whose timer expired ends in the ApiError of status 408 whose
\* user-facing message says the request timed out; a call that was answered
\* or whose request was rejected never says so.
C17_TimeoutDistinct ==
    Answered =>
        IF ApiEvent.kind = "abort"
        THEN IsApiError(ApiOutcome, 408) /\ SaysTimedOut(ApiOutcome)
        ELSE ~SaysTimedOut(ApiOutcome)

\* explainRisk has timed out, and another call was answered with status 408
C17_Witness ==
    /\ Answered /\ api.fn = "explainRisk" /\ ApiEvent.kind = "abort"
    /\ SaysTimedOut(ApiOutcome)

\* the message C18 expects for a response body: its detail or message member,
\* else its text, else the generic message
ExpectedMessage(status, body) ==
    LET value == IF body.json = <<>> THEN Undefined ELSE body.json[1]
    IN IF Truthy(Get(value, <<"detail">>)) THEN TextOf(Get(value, <<"detail">>))
       ELSE IF Truthy(Get(value, <<"message">>)) THEN TextOf(Get(value, <<"message">>))
       ELSE IF body.json = <<>> /\ body.text # <<>> THEN body.text
       ELSE <<"Analysis failed", StatusText(status)>>

\* C18: analyzeContract answers a non-2xx response, whatever its body, with
\* an ApiError that carries the response's status and the body's message,
\* or the generic message when the body has none.
C18_ServerErrorKeepsStatus ==
    (Answered /\ api.fn = "analyzeContract" /\ ApiEvent.kind = "response"
     /\ ~Ok(ApiEvent.status)) =>
        /\ IsApiError(ApiOutcome, ApiEvent.status)
        /\ ApiOutcome.error.message = ExpectedMessage(ApiEvent.status, ApiEvent.body)

\* C19: every call whose request was rejected by the transport ends in the
\* connectivity error (status 0), not in a server error.
C19_NetworkUnreachable ==
    (Answered /\ ApiEvent.kind = "reject") => IsApiError(ApiOutcome, 0)

\* the analysis field of the body analyzeContract was answered with
AnalysisField == Get(ApiEvent.body.json[1], <<"analysis">>)
OkAnalysis ==
    /\ Answered /\ api.fn = "analyzeContract" /\ ApiEvent.kind = "response"
    /\ Ok(ApiEvent.status) /\ ApiEvent.body.json # <<>>

\* C20: analyzeContract returns the object A both for an analysis field that
\* is A and for one that is the JSON text of A; for a field that is a string
\* but not JSON it throws the ApiError of a malformed response.
C20_ParseDepth ==
    OkAnalysis =>
        /\ AnalysisField.t \in {"obj", "arr"} => ApiOutcome = Returned(AnalysisField)
        /\ \A object \in JObjects :
              AnalysisField = JStr(JSONStringify(object)) => ApiOutcome = Returned(object)
        /\ (AnalysisField.t = "str" /\ JSONParseText(AnalysisField.s) = <<>>) =>
              /\ IsApiError(ApiOutcome, 500)
              /\ ApiOutcome.error.message = <<"Invalid response format from server">>

\* analyzeContract has returned an object that came as a JSON text with
\* escaped characters in it
C20_Witness ==
    /\ OkAnalysis /\ AnalysisField.t = "str"
    /\ Len(AnalysisField.s) > 8
    /\ Backslash \in Range(AnalysisField.s)
    /\ ApiOutcome.kind = "value" /\ ApiOutcome.value.t = "obj"
    /\ Len(ApiOutcome.value.m) = 2

\* an object with the three flag lists of an AnalysisResult
ValidAnalysisResult(value) ==
    /\ value.t = "obj"
    /\ \A key \in {<<"red_flags">>, <<"yellow_flags">>, <<"green_flags">>} :
          Get(value, key).t = "arr"

\* C21: analyzeContract with a text that is not empty either returns a valid
\* AnalysisResult or throws an ApiError, whatever the backend does.
C21_ValidResultOrApiError ==
    (Settled /\ api.fn = "analyzeContract" /\ api.input.kind = "text"
     /\ api.input.text # <<>>) =>
        \/ ApiOutcome.kind = "value" /\ ValidAnalysisResult(ApiOutcome.value)
        \/ ApiOutcome.kind = "error" /\ ApiOutcome.error.cls = "ApiError"

\* the announcements of a title in the transcript, and the selected clauses
\* that carry the title
AnnouncementsOf(title) ==
    Cardinality({i \in 1..Len(messages) : messages[i].text = Announcement(title)})
SelectedWithTitle(title) ==
    Cardinality({i \in 1..Len(clauses) :
                    clauses[i].title = title /\ clauses[i].id \in Range(selectedClauseIds)})

C23_OneRunAtATime == [][turns' # turns => pc = "idle"]_vars

\* a second run has started after the first one ended with a reply
C23_Witness ==
    /\ turns = 1 /\ pc = "fetch" /\ caller = "one"
    /\ AgentCount(messages) > 0

\* C28: the request the Home page sends to /analyze_contract/ has a
\* jurisdiction field with the jurisdiction the page submitted.
C28_RequestCarriesJurisdiction ==
    (home.isLoading /\ api.fn = "analyzeContract" /\ api.requests = 1) =>
        [name |-> "jurisdiction", value |-> api.input.jurisdiction]
            \in FormDataOf(api.input)

\* the calls in flight for an index
InFlightFor(idx) ==
    Cardinality({k \in 1..Len(report.inFlight) : report.inFlight[k].idx = idx})

\* C29: with several explainRisk calls in flight, every stored explanation is
\* the one of its own index, and an index with a call in flight is the one
\* marked as being explained, so that it has one call in flight at most.
C29_ExplainPerIndex ==
    \A idx \in RiskIndexes :
        /\ report.explanations[idx] \in
              {<<>>, <<"No explanation available">>, <<"E">> \o RiskText(idx)}
        /\ InFlightFor(idx) <= 1
        /\ InFlightFor(idx) = 1 => report.explainingRiskId = idx

\* the texts of spans, one after the other
RECURSIVE Concatenation(_)
Concatenation(spans) ==
    IF spans = <<>> THEN <<>> ELSE Head(spans).text \o Concatenation(Tail(spans))

\* C25: the spans highlightedText renders, one after the other, are the
\* document, whatever regions the clause anchors match.
C25_SpansMakeTheDocument ==
    Concatenation(highlightedText(contractText, clauses)) = contractText

\* a clause turn that streamed an edit has ended without a failure and its
\* clause has been removed from the store and the page
NegotiatedEditDone ==
    /\ pc = "idle" /\ turns > 0 /\ caller = "one" /\ ~failed
    /\ fullProposedEdit # <<>>
    /\ clauseId \notin Ids(flags)

\* C26: after a clause turn that streamed an edit, once the clause has been
\* removed, the page still shows the final edit buffer.
C26_NegotiatedEditPersists ==
    NegotiatedEditDone => contractText = fullProposedEdit

\* fl with the flag at position pos left out (all of fl when pos is 0)
LeftOut(fl, pos) ==
    IF pos = 0 THEN fl
    ELSE [k \in 1..(Len(fl) - 1) |-> IF k < pos THEN fl[k] ELSE fl[k + 1]]
PositionOf(fl, id) ==
    IF id \in Ids(fl) THEN CHOOSE k \in 1..Len(fl) : fl[k].id = id ELSE 0

\* C27: after every store call the flag ids are pairwise distinct, and
\* removeNegotiatedClause(id) leaves the flags as they were but for the one
\* flag with that id, if there is one.
C27_ClauseIdentityFrozen ==
    [][/\ Cardinality(Ids(flags')) = Len(flags')
       /\ (storeOps' # storeOps
           /\ storeOps'[Len(storeOps')].op = "removeNegotiatedClause") =>
              flags' = LeftOut(flags, PositionOf(flags, storeOps'[Len(storeOps')].arg))]_vars

\* a flag in the middle of the list has been removed, and then an id the
\* store does not hold
C27_Witness ==
    /\ Len(storeOps) = 3
    /\ storeOps[2].op = "removeNegotiatedClause" /\ storeOps[2].arg = <<"red", 1>>
    /\ storeOps[3].op = "removeNegotiatedClause" /\ storeOps[3].arg = <<"yellow", 1>>
    /\ Len(flags) = 3

\* C30: cleaning a cleaned text changes nothing, for the text of the store
\* whatever it is, so the text shown stays the same when the page loads the
\* text it has stored itself.
C30_CleanIdempotent ==
    /\ cleanPdfText(cleanPdfText(contractContent)) = cleanPdfText(contractContent)
    /\ mounted /\ ~isProcessing => cleanPdfText(contractText) = contractText

\* C24: whenever a run of processNegotiation, a re-analysis or the Home
\* page's analysis has made the page busy, the page becomes idle again,
\* provided every request and read is answered in the end.
C24_BusyEnds ==
    /\ isProcessing ~> ~isProcessing
    /\ isReanalyzing ~> ~isReanalyzing
    /\ home.isLoading ~> ~home.isLoading

\* a run that went through the catch has left the page idle
C24_Witness ==
    /\ turns = 1 /\ failed /\ pc = "idle" /\ ~isProcessing
    /\ reanalyses = 1 /\ ~isReanalyzing
====
